---- MODULE Spec2Model ----
(***************************************************************************)
(* A model of grabbit's Layout (grabbit/core.py): domains and entities,    *)
(* the index() walk over a file tree, the saved index, and get().          *)
(*                                                                         *)
(* Strings are sequences of one-character strings, so that regex search,   *)
(* path splitting and joining are computed character by character.         *)
(***************************************************************************)
EXTENDS Integers, Sequences, FiniteSets, TLC

(***************************************************************************)
(* Strings                                                                 *)
(***************************************************************************)
Digits == {"0", "1", "2", "3", "4", "5", "6", "7", "8", "9"}

SEP == "/"

Min(S) == CHOOSE x \in S : \A y \in S : x <= y

Max(S) == CHOOSE x \in S : \A y \in S : x >= y

\* s[i..] starts with p
StartsWithAt(s, p, i) ==
    /\ i >= 1
    /\ i + Len(p) - 1 <= Len(s)
    /\ \A j \in 1..Len(p) : s[i + j - 1] = p[j]

EndsWith(s, p) == StartsWithAt(s, p, Len(s) - Len(p) + 1)

Contains(s, p) == \E i \in 1..(Len(s) + 1) : StartsWithAt(s, p, i)

\* the greedy (\d+) group: the end of the maximal digit run starting at i
\* (i - 1 when s[i] is not a digit)
DigitRunEnd(s, i) ==
    Min({j \in i..(Len(s) + 1) : j = Len(s) + 1 \/ s[j] \notin Digits}) - 1

\* str(int(s)) for a digit string s: leading zeros dropped, one digit kept
StripZeros(s) ==
    IF \A i \in 1..Len(s) : s[i] = "0" THEN <<"0">>
    ELSE SubSeq(s, Min({i \in 1..Len(s) : s[i] # "0"}), Len(s))

\* s.rstrip('/')
RStripSep(s) == SubSeq(s, 1, Max({0} \cup {i \in 1..Len(s) : s[i] # SEP}))

(***************************************************************************)
(* os.path (posixpath)                                                     *)
(***************************************************************************)
\* the head of split: trailing separators dropped unless it is all separators
SplitHead(head, stripped) == IF stripped # << >> THEN stripped ELSE head

SplitAt(p, i) ==
    <<SplitHead(SubSeq(p, 1, i), RStripSep(SubSeq(p, 1, i))), SubSeq(p, i + 1, Len(p))>>

\* posixpath.split: (head, tail) around the last separator
split(p) == SplitAt(p, Max({0} \cup {i \in 1..Len(p) : p[i] = SEP}))

dirname(p) == split(p)[1]

basename(p) == split(p)[2]

\* posixpath.join of two components
join(a, b) ==
    IF b # << >> /\ b[1] = SEP THEN b
    ELSE IF a = << >> \/ a[Len(a)] = SEP THEN a \o b
    ELSE a \o <<SEP>> \o b

\* os.path.relpath(path, start) for a path below start
relpath(p, start) ==
    IF p = start THEN <<".">>
    ELSE SubSeq(p, Len(RStripSep(start)) + 2, Len(p))

(***************************************************************************)
(* The file tree that is scanned.  Listing gives, for every directory,     *)
(* what os.walk reports for it: its subdirectories and its files, in       *)
(* listing order.                                                          *)
(*                                                                         *)
(*   /r/x.t                                                                *)
(*   /r/s1/s1r1.t   /r/s1/s1r02.j   /r/s1/s1.t                             *)
(*   /r/v/s2r1.t    /r/v/w/s2r2.t                                          *)
(*   /r/u/c.j       /r/u/s3r1.t                                            *)
(***************************************************************************)
RootDir == <<"/", "r">>

DirS1 == <<"/", "r", "/", "s", "1">>

DirV == <<"/", "r", "/", "v">>

DirW == <<"/", "r", "/", "v", "/", "w">>

DirU == <<"/", "r", "/", "u">>

ConfigName == <<"c", ".", "j">>

LayoutJson == <<"l", ".", "j">>

Dirs == {RootDir, DirS1, DirV, DirW, DirU}

Listing(d) ==
    CASE d = RootDir -> [dirs  |-> << <<"s", "1">>, <<"v">>, <<"u">> >>,
                         files |-> << <<"x", ".", "t">> >>]
      [] d = DirS1   -> [dirs  |-> << >>,
                         files |-> << <<"s", "1", "r", "1", ".", "t">>,
                                      <<"s", "1", "r", "0", "2", ".", "j">>,
                                      <<"s", "1", ".", "t">> >>]
      [] d = DirV    -> [dirs  |-> << <<"w">> >>,
                         files |-> << <<"s", "2", "r", "1", ".", "t">> >>]
      [] d = DirW    -> [dirs  |-> << >>,
                         files |-> << <<"s", "2", "r", "2", ".", "t">> >>]
      [] d = DirU    -> [dirs  |-> << >>,
                         files |-> << ConfigName,
                                      <<"s", "3", "r", "1", ".", "t">> >>]

\* os.path.isdir / os.path.exists on the tree
isdir(p) == p \in Dirs

ListedIn(d, name) ==
    d \in Dirs /\ \E i \in 1..Len(Listing(d).files) : Listing(d).files[i] = name

exists(p) == isdir(p) \/ ListedIn(dirname(p), basename(p))

\* every path of the tree that is a regular file
TreeFiles ==
    UNION {{join(d, Listing(d).files[i]) : i \in 1..Len(Listing(d).files)} :
           d \in Dirs}

(***************************************************************************)
(* Python dicts that keep insertion order: sequences of [k, v] entries.    *)
(***************************************************************************)
DictHas(d, key) == \E i \in 1..Len(d) : d[i].k = key

DictGet(d, key) == d[CHOOSE i \in 1..Len(d) : d[i].k = key].v

\* d[key] = val
DictSet(d, key, val) ==
    IF \E i \in 1..Len(d) : d[i].k = key
    THEN [i \in 1..Len(d) |-> IF d[i].k = key THEN [k |-> key, v |-> val] ELSE d[i]]
    ELSE Append(d, [k |-> key, v |-> val])

DictKeys(d) == {d[i].k : i \in 1..Len(d)}

DictValues(d) == {d[i].v : i \in 1..Len(d)}

\* the elements of a list, as a set
Elems(l) == {l[i] : i \in 1..Len(l)}

(***************************************************************************)
(* Values.  A matched value is the captured string, or the int it was      *)
(* coerced to; s is what str(value) gives.  NoValue stands for None.       *)
(***************************************************************************)
NoValue == [int |-> FALSE, s |-> << >>]

StrValue(chars) == [int |-> FALSE, s |-> chars]

\* int(chars) for a digit string
IntValue(chars) == [int |-> TRUE, s |-> StripZeros(chars)]

(***************************************************************************)
(* Regular expressions.  An entity pattern is a literal followed by the    *)
(* group (\d+); an include/exclude pattern is a literal, optionally        *)
(* anchored with $.                                                        *)
(***************************************************************************)
\* the group (\d+) of the leftmost of the matches starting at hits
GroupAt(s, n, hits) ==
    IF hits = {} THEN << >>
    ELSE SubSeq(s, Min(hits) + n, DigitRunEnd(s, Min(hits) + n))

\* re.search(pre + '(\d+)', s).group(1), or << >> when there is no match
SearchGroup(pre, s) ==
    GroupAt(s, Len(pre),
            {i \in 1..Len(s) : /\ StartsWithAt(s, pre, i)
                               /\ i + Len(pre) <= Len(s)
                               /\ s[i + Len(pre)] \in Digits})

\* re.search(regex, s) is not None
SearchPattern(regex, s) ==
    IF regex.anchored THEN EndsWith(s, regex.lit) ELSE Contains(s, regex.lit)

(***************************************************************************)
(* Entity                                                                  *)
(***************************************************************************)
\* Entity.__init__: the qualified id and the alias keys are (domain name, name);
\* directory is << >> for None and <<name>> for the template "{name}";
\* map_func is "None" or the name of a mapping function; pre is the pattern
\* (of no use when map_func is set)
EntityId(domain_name, name) == <<domain_name, name>>

NewEntity(domain_name, e) ==
    [name      |-> e.name,
     pre       |-> e.pre,
     domain    |-> domain_name,
     mandatory |-> e.mandatory,
     directory |-> e.directory,
     map_func  |-> e.map_func,
     dtype     |-> e.dtype,
     id        |-> EntityId(domain_name, e.name),
     aliases   |-> [i \in 1..Len(e.aliases) |-> EntityId(domain_name, e.aliases[i])],
     files     |-> << >>]

\* the dtype coercion at the end of match_file
Coerce(dtype, val) ==
    IF val = << >> THEN NoValue
    ELSE IF dtype = "int" THEN IntValue(val)
    ELSE StrValue(val)

\* the mapping functions: raise_j raises for a path that ends in 2.j,
\* raise_x for one that ends in x.t; both return None for every other path
MapFuncRaises(map_func, path) ==
    \/ map_func = "raise_j" /\ EndsWith(path, <<"2", ".", "j">>)
    \/ map_func = "raise_x" /\ EndsWith(path, <<"x", ".", "t">>)

\* val = self.map_func(f) when it returns: None, written << >>
MapFunc(map_func, path) == << >>

\* Entity.match_file: the value matched in the file's path, or NoValue
match_file(ent, path) ==
    Coerce(ent.dtype, IF ent.map_func # "None" THEN MapFunc(ent.map_func, path)
                      ELSE SearchGroup(ent.pre, path))

\* m[key] = val for a dict kept as a function
MapSet(m, key, val) ==
    [q \in (DOMAIN m) \cup {key} |-> IF q = key THEN val ELSE m[q]]

\* Entity.add_file
EntityAddFile(ent, filename, value) ==
    [ent EXCEPT !.files = MapSet(@, filename, value)]

(***************************************************************************)
(* Domain configurations (the dicts read from JSON).  root is the list of  *)
(* root directories, << >> when the config has no 'root' key.              *)
(***************************************************************************)
EntSubject ==
    [name |-> "subject", pre |-> <<"s">>, mandatory |-> FALSE, dtype |-> "None",
     aliases |-> << >>, directory |-> <<"subject">>, map_func |-> "None"]

EntRun ==
    [name |-> "run", pre |-> <<"r">>, mandatory |-> FALSE, dtype |-> "int",
     aliases |-> <<"r">>, directory |-> << >>, map_func |-> "None"]

EntRunMandatory == [EntRun EXCEPT !.mandatory = TRUE]

\* matches the directory part /s<digits>
EntSession ==
    [name |-> "session", pre |-> <<"/", "s">>, mandatory |-> FALSE,
     dtype |-> "None", aliases |-> << >>, directory |-> << >>, map_func |-> "None"]

\* the nested domain's own 'subject': the digits after r
EntSubjectN ==
    [name |-> "subject", pre |-> <<"r">>, mandatory |-> FALSE, dtype |-> "None",
     aliases |-> <<"sub">>, directory |-> << >>, map_func |-> "None"]

\* the include/exclude patterns v, v$ and s
PatV == [lit |-> <<"v">>, anchored |-> FALSE]

PatVAnchor == [lit |-> <<"v">>, anchored |-> TRUE]

PatS == [lit |-> <<"s">>, anchored |-> FALSE]

CfgPlain ==
    [name |-> "b", root |-> << >>, entities |-> <<EntSubject, EntRun>>,
     include |-> << >>, exclude |-> << >>, domains |-> << >>]

CfgMandatory == [CfgPlain EXCEPT !.entities = <<EntSubject, EntRunMandatory, EntSession>>]

CfgExclude == [CfgPlain EXCEPT !.exclude = <<PatV>>]

CfgExcludeAnchor == [CfgPlain EXCEPT !.exclude = <<PatVAnchor>>]

CfgInclude == [CfgPlain EXCEPT !.include = <<PatS>>]

\* the contents of /r/u/c.j
CfgNested ==
    [name |-> "n", root |-> << >>, entities |-> <<EntSubjectN>>,
     include |-> << >>, exclude |-> << >>, domains |-> << >>]

\* a config that sets both include and exclude
CfgBoth == [CfgNested EXCEPT !.include = <<PatS>>, !.exclude = <<PatV>>]

ConfigFilePath == join(DirU, ConfigName)

\* json.load(open(path)) succeeds only for the config file of the tree
IsJson(path) == path = ConfigFilePath

ReadJson(path) == CfgNested

(***************************************************************************)
(* Layout.  A layout is the record of the object's attributes; heap holds  *)
(* the Entity objects, which entities, Domain.entities and the Tags refer  *)
(* to by position.                                                         *)
(***************************************************************************)
NewLayout(root, config_filename, include, exclude) ==
    [entities        |-> << >>,
     files           |-> << >>,
     mandatory       |-> {},
     config_filename |-> config_filename,
     domains         |-> << >>,
     include         |-> include,
     exclude         |-> exclude,
     regex_search    |-> FALSE,
     root            |-> root,
     heap            |-> << >>]

\* Domain.__init__
NewDomain(config) ==
    [name       |-> config.name,
     root       |-> config.root,
     cfgdomains |-> config.domains,
     entities   |-> << >>,
     files      |-> << >>,
     include    |-> config.include,
     exclude    |-> config.exclude]


\* the alias loop of Layout.add_entity
RECURSIVE FillAliases(_, _, _, _)
FillAliases(entities, aliases, ref, i) ==
    IF i > Len(aliases) THEN entities
    ELSE FillAliases(DictSet(entities, aliases[i], ref), aliases, ref, i + 1)

\* the registration of a built Entity, stored at heap position ref
AddEntityObj(st, ent, ref) ==
    [L      |-> [st.L EXCEPT
                   !.heap      = Append(@, ent),
                   !.mandatory = IF ent.mandatory THEN @ \cup {ent.id} ELSE @,
                   !.entities  = FillAliases(DictSet(@, ent.id, ref),
                                             ent.aliases, ref, 1)],
     domain |-> [st.domain EXCEPT !.entities = DictSet(@, ent.name, ref)]]

\* Layout.add_entity: st is [L, domain]
add_entity(st, e) ==
    AddEntityObj(st, NewEntity(st.domain.name, e), Len(st.L.heap) + 1)

\* for entity in config['entities']: self.add_entity(domain=domain, **entity)
RECURSIVE AddEntities(_, _, _)
AddEntities(st, ents, i) ==
    IF i > Len(ents) THEN st ELSE AddEntities(add_entity(st, ents[i]), ents, i + 1)

\* the outcome of a _load_domain call that raises
LoadRaise(L, e) == [L |-> L, err |-> e, name |-> ""]

\* self.domains[domain.name] = domain; return domain
LoadRegister(st) ==
    [L    |-> [st.L EXCEPT !.domains = DictSet(@, st.domain.name, st.domain)],
     err  |-> "None",
     name |-> st.domain.name]

\* _load_domain from the root check on: cfg has its 'root' filled in
LoadRooted(L, cfg) ==
    IF cfg.root = << >> THEN LoadRaise(L, "TypeError")
    ELSE IF \E i \in 1..Len(cfg.root) : ~exists(cfg.root[i])
         THEN LoadRaise(L, "ValueError")
    ELSE IF cfg.include # << >> /\ cfg.exclude # << >>
         THEN LoadRaise(L, "ValueError")
    ELSE LoadRegister(AddEntities([L |-> L, domain |-> NewDomain(cfg)],
                                  cfg.entities, 1))

\* _load_domain from the duplicate-name check on, with the check left out:
\* the variant that C6_DuplicateDomainRejected tells apart from LoadConfig
LoadConfigUnchecked(L, config, root, from_init) ==
    LoadRooted(L, IF config.root # << >> THEN config
                  ELSE [config EXCEPT !.root =
                           IF root = << >> /\ from_init THEN <<L.root>>
                           ELSE root])

\* _load_domain from the duplicate-name check on
LoadConfig(L, config, root, from_init) ==
    IF DictHas(L.domains, config.name) THEN LoadRaise(L, "ValueError")
    ELSE LoadRooted(L, IF config.root # << >> THEN config
                       ELSE [config EXCEPT !.root =
                                IF root = << >> /\ from_init THEN <<L.root>>
                                ELSE root])

\* _load_domain for a config given as the path cfile of a file
LoadFile(L, cfile, root, from_init) ==
    IF ~exists(cfile) \/ ~IsJson(cfile) THEN LoadRaise(L, "ValueError")
    ELSE LoadConfig(L, ReadJson(cfile),
                    IF root = << >> /\ ~from_init THEN <<dirname(cfile)>> ELSE root,
                    from_init)

\* Layout._load_domain.  src.path is the config given as a string (<< >> when
\* a dict, src.dict, was passed); root is the list of roots (<< >> for None).
\* Gives the layout afterwards, the exception raised and the domain's name.
_load_domain(L, src, root, from_init) ==
    IF src.path # << >>
    THEN LoadFile(L, IF isdir(src.path) THEN join(src.path, L.config_filename)
                     ELSE src.path,
                  root, from_init)
    ELSE LoadConfig(L, src.dict, root, from_init)

\* the include/exclude rules of the layers from the i-th on
RECURSIVE CheckLayers(_, _, _)
CheckLayers(layers, filename, i) ==
    IF i > Len(layers) THEN TRUE
    ELSE IF layers[i].include # << >>
         THEN \E j \in 1..Len(layers[i].include) :
                  SearchPattern(layers[i].include[j], filename)
    ELSE IF \E j \in 1..Len(layers[i].exclude) :
                SearchPattern(layers[i].exclude[j], filename)
         THEN FALSE
    ELSE CheckLayers(layers, filename, i + 1)

\* Layout._check_inclusions(f, domains=dom): the Layout's own rules come
\* first, then the domain's
_check_inclusions(L, filename, dom) ==
    CheckLayers(<<[include |-> L.include, exclude |-> L.exclude],
                  [include |-> DictGet(L.domains, dom).include,
                   exclude |-> DictGet(L.domains, dom).exclude]>>,
                filename, 1)

\* os.walk(top, topdown=True) run to the end: one (root, dirs, files) entry
\* per directory, parents first
RECURSIVE walk(_)
RECURSIVE WalkBelow(_, _, _)
WalkBelow(top, dirs, i) ==
    IF i > Len(dirs) THEN << >>
    ELSE walk(join(top, dirs[i])) \o WalkBelow(top, dirs, i + 1)

WalkEntry(top, here) ==
    <<[root |-> top, dirs |-> here.dirs, files |-> here.files]>>
        \o WalkBelow(top, here.dirs, 1)

walk(top) == WalkEntry(top, Listing(top))

\* chain(*[os.walk(r) for r in roots]) from the i-th root on
RECURSIVE ChainWalks(_, _)
ChainWalks(roots, i) ==
    IF i > Len(roots) THEN << >> ELSE walk(roots[i]) \o ChainWalks(roots, i + 1)

\* Layout._get_files: list(chain(*[os.walk(r) for r in roots])); the walks
\* are run to the end before the caller sees the first entry
_get_files(roots) == ChainWalks(roots, 1)

\* Layout._reset_index
_reset_index(L) ==
    [L EXCEPT !.files = << >>,
              !.heap  = [r \in 1..Len(L.heap) |->
                            IF r \in DictValues(L.entities)
                            THEN [L.heap[r] EXCEPT !.files = << >>]
                            ELSE L.heap[r]]]

\* list(s) for a set of domain names: the order the process iterates it in
RECURSIVE ListOfSetFrom(_, _, _)
ListOfSetFrom(order, S, i) ==
    IF i > Len(order) THEN << >>
    ELSE (IF order[i] \in S THEN <<order[i]>> ELSE << >>)
             \o ListOfSetFrom(order, S, i + 1)

ListOfSet(order, S) == ListOfSetFrom(order, S, 1)

\* File.__init__
NewFile(filename) == [path |-> filename, tags |-> << >>]

\* f.tags[key] = tag
SetTag(f, key, tag) == [f EXCEPT !.tags = MapSet(@, key, tag)]

\* the key of a tag set while indexing: the entity's local name
NameKey(name) == <<"", name>>

\* Domain.add_file
DomainAddFile(domain, path) == [domain EXCEPT !.files = Append(@, path)]

\* the loop over domain.entities.values() in _index_file: the (entity, value)
\* pairs collected before the first mandatory entity that does not match
RECURSIVE MatchValsFrom(_, _, _, _)
MatchValsStep(L, ents, path, i, e, m) ==
    IF m = NoValue /\ e.mandatory THEN << >>
    ELSE (IF m # NoValue THEN <<[name |-> e.name, ent |-> ents[i].v, val |-> m]>>
          ELSE << >>) \o MatchValsFrom(L, ents, path, i + 1)

MatchValsFrom(L, ents, path, i) ==
    IF i > Len(ents) THEN << >>
    ELSE MatchValsStep(L, ents, path, i, L.heap[ents[i].v],
                       match_file(L.heap[ents[i].v], path))

MatchVals(L, domain, path) == MatchValsFrom(L, domain.entities, path, 1)

\* the loop over domain.entities.values() reaches an entity whose match_file
\* raises: nothing catches the exception of a mapping function
RECURSIVE MatchRaisesFrom(_, _, _, _)
MatchRaisesFrom(L, ents, path, i) ==
    IF i > Len(ents) THEN FALSE
    ELSE IF MapFuncRaises(L.heap[ents[i].v].map_func, path) THEN TRUE
    ELSE IF match_file(L.heap[ents[i].v], path) = NoValue
            /\ L.heap[ents[i].v].mandatory
         THEN FALSE
    ELSE MatchRaisesFrom(L, ents, path, i + 1)

\* f.tags[k] = Tag(ent, val); if update_layout: ent.add_file(f.path, val)
TagOne(t, m, update_layout) ==
    [L |-> IF update_layout
           THEN [t.L EXCEPT !.heap[m.ent] = EntityAddFile(@, t.f.path, m.val)]
           ELSE t.L,
     f |-> SetTag(t.f, NameKey(m.name), [entity |-> m.ent, value |-> m.val])]

\* for k, (ent, val) in match_vals.items()
RECURSIVE TagAll(_, _, _, _)
TagAll(t, mv, i, update_layout) ==
    IF i > Len(mv) THEN t
    ELSE TagAll(TagOne(t, mv[i], update_layout), mv, i + 1, update_layout)

\* if update_layout: domain.add_file(f)
AddDomainFile(t, d, update_layout) ==
    IF update_layout
    THEN [t EXCEPT !.L.domains =
             DictSet(@, d, DomainAddFile(DictGet(@, d), t.f.path))]
    ELSE t

\* the body of the loop over domains in _index_file, on st = [L, f]
ApplyDomain(st, d, update_layout) ==
    AddDomainFile(TagAll(st, MatchVals(st.L, DictGet(st.L.domains, d), st.f.path),
                         1, update_layout),
                  d, update_layout)

\* for d in listify(domains), then self.files[f.path] = f
RECURSIVE IndexFileFrom(_, _, _, _)
IndexFileFrom(st, doms, i, update_layout) ==
    IF i > Len(doms)
    THEN [L   |-> [st.L EXCEPT !.files = DictSet(@, st.f.path, st.f)],
          err |-> "None", f |-> st.f]
    ELSE IF ~DictHas(st.L.domains, doms[i])
         THEN [L |-> st.L, err |-> "ValueError", f |-> st.f]
    ELSE IF MatchRaisesFrom(st.L, DictGet(st.L.domains, doms[i]).entities,
                            st.f.path, 1)
         THEN [L |-> st.L, err |-> "MapFuncError", f |-> st.f]
    ELSE IndexFileFrom(ApplyDomain(st, doms[i], update_layout), doms, i + 1,
                       update_layout)

\* Layout._index_file(root, f, domains, update_layout)
_index_file(L, root, fname, doms, update_layout) ==
    IndexFileFrom([L |-> L, f |-> NewFile(join(root, fname))], doms, 1,
                  update_layout)

absolute_paths == TRUE

\* files_to_index[path] = doms, the domains of the last walk alone: the
\* variant that C7_OneFileTagsByName tells apart from AddCandidates
AddCandidatesLast(fti, path, doms) == DictSet(fti, path, doms)

\* files_to_index[path] |= doms
AddCandidates(fti, path, doms) ==
    DictSet(fti, path, (IF DictHas(fti, path) THEN DictGet(fti, path) ELSE {}) \cup doms)

\* the body of the loop over filenames.  X carries the layout,
\* files_to_index, extra_configs and the directories listed so far.
ScanFile(X, dom, doms_to_add, f, full_path) ==
    IF f = X.L.config_filename
    THEN [X EXCEPT !.extra_configs =
             IF \E j \in 1..Len(@) : @[j] = full_path THEN @ ELSE Append(@, full_path)]
    ELSE IF _check_inclusions(X.L, full_path, dom)
    THEN [X EXCEPT !.files_to_index =
             AddCandidates(@, IF StartsWithAt(full_path, X.L.root, 1) /\ ~absolute_paths
                              THEN relpath(full_path, X.L.root)
                              ELSE full_path,
                           doms_to_add)]
    ELSE X

\* for f in filenames
RECURSIVE ScanFiles(_, _, _, _, _)
ScanFiles(X, dom, doms_to_add, entry, i) ==
    IF i > Len(entry.files) THEN X
    ELSE ScanFiles(ScanFile(X, dom, doms_to_add, entry.files[i],
                            join(entry.root, entry.files[i])),
                   dom, doms_to_add, entry, i + 1)

\* for root, directories, filenames in dataset; the assignment to
\* directories[:] changes a list that os.walk no longer reads
RECURSIVE ScanEntries(_, _, _, _, _)
ScanEntries(X, dom, doms_to_add, dataset, i) ==
    IF i > Len(dataset) THEN X
    ELSE ScanEntries(ScanFiles(X, dom, doms_to_add, dataset[i], 1),
                     dom, doms_to_add, dataset, i + 1)

\* the directories of a dataset recorded as listed for dom
LogWalk(X, dom, dataset) ==
    [X EXCEPT !.walked =
        @ \o [i \in 1..Len(dataset) |-> [dom |-> dom, dir |-> dataset[i].root]]]

ScanDomain(X, domain, dataset) ==
    ScanEntries(LogWalk(X, domain.name, dataset), domain.name,
                Elems(domain.cfgdomains) \cup {domain.name}, dataset, 1)

\* index()._index_domain_files(dom)
_index_domain_files(X, dom) ==
    ScanDomain(X, DictGet(X.L.domains, dom), _get_files(DictGet(X.L.domains, dom).root))

\* for dom in self.domains.values(): _index_domain_files(dom)
RECURSIVE IndexDomains(_, _)
IndexDomains(X, i) ==
    IF i > Len(X.L.domains) THEN X
    ELSE IndexDomains(_index_domain_files(X, X.L.domains[i].k), i + 1)

\* for dom in extra_configs (the list may grow while it is iterated):
\* r is what self._load_domain(dom) gave
RECURSIVE IndexExtra(_, _)
IndexExtraLoaded(X, i, r) ==
    IF r.err # "None" THEN [X EXCEPT !.L = r.L, !.err = r.err]
    ELSE IndexExtra(_index_domain_files([X EXCEPT !.L = r.L], r.name), i + 1)

IndexExtra(X, i) ==
    IF i > Len(X.extra_configs) THEN X
    ELSE IndexExtraLoaded(X, i,
             _load_domain(X.L, [path |-> X.extra_configs[i], dict |-> CfgNested],
                          << >>, FALSE))

\* the outcome of one _index_file call taken into X
IndexedFile(X, r) == [X EXCEPT !.L = r.L, !.err = r.err]

\* for filename, domains in files_to_index.items()
RECURSIVE IndexItems(_, _, _)
IndexItems(X, order, i) ==
    IF i > Len(X.files_to_index) \/ X.err # "None" THEN X
    ELSE IndexItems(IndexedFile(X, _index_file(X.L,
                                               split(X.files_to_index[i].k)[1],
                                               split(X.files_to_index[i].k)[2],
                                               ListOfSet(order, X.files_to_index[i].v),
                                               TRUE)),
                    order, i + 1)

IndexResult(X) == [L |-> X.L, err |-> X.err, walked |-> X.walked]

\* Layout.index().  order is the iteration order of sets of domain names.
\* Gives the layout afterwards, the exception raised, and the directories
\* that were listed.
index(L, order) ==
    IndexResult(IndexItems(IndexExtra(IndexDomains(
        [L |-> _reset_index(L), files_to_index |-> << >>,
         extra_configs |-> << >>, walked |-> << >>, err |-> "None"], 1), 1),
        order, 1))

(***************************************************************************)
(* File properties                                                         *)
(***************************************************************************)
\* File.entities: key -> value
FileEntities(f) == [key \in DOMAIN f.tags |-> f.tags[key].value]

\* File.domains, as a set: the domains of the entities that tagged the file
FileDomains(L, f) == {L.heap[f.tags[key].entity].domain : key \in DOMAIN f.tags}

(***************************************************************************)
(* save_index / load_index                                                 *)
(***************************************************************************)
\* {v.entity.id: v.value for k, v in f.tags.items()}
SavedEntities(L, f) ==
    [id \in {L.heap[f.tags[key].entity].id : key \in DOMAIN f.tags} |->
        f.tags[CHOOSE key \in DOMAIN f.tags : L.heap[f.tags[key].entity].id = id].value]

\* Layout.save_index: the JSON document written, path -> {domains, entities},
\* the entities keyed by the qualified id of the tag's entity
save_index(L, order) ==
    [i \in 1..Len(L.files) |->
        [k |-> L.files[i].v.path,
         v |-> [domains  |-> ListOfSet(order, FileDomains(L, L.files[i].v)),
                entities |-> SavedEntities(L, L.files[i].v)]]]

\* self.files[f.path] = f, then self.entities[ent].add_file(f.path, val) for
\* every (ent, val) of f.entities
RestoreFile(L, f) ==
    [L   |-> [L EXCEPT
                !.files = DictSet(@, f.path, f),
                !.heap  = [r \in 1..Len(@) |->
                    IF \E key \in DOMAIN f.tags : f.tags[key].entity = r
                    THEN EntityAddFile(@[r], f.path,
                             f.tags[CHOOSE key \in DOMAIN f.tags :
                                       f.tags[key].entity = r].value)
                    ELSE @[r]]],
     err |-> "None"]

\* the branch of load_index without reindex, for one entry: the tags are
\* keyed by the keys of the saved entities
Restore(L, path, ents) ==
    IF \E key \in DOMAIN ents : ~DictHas(L.entities, key)
    THEN [L |-> L, err |-> "KeyError"]
    ELSE RestoreFile(L, [path |-> path,
                         tags |-> [key \in DOMAIN ents |->
                                      [entity |-> DictGet(L.entities, key),
                                       value  |-> ents[key]]]])

\* the body of the loop of load_index: gives the layout and the exception
LoadEntry(L, path, file, reindex) ==
    IF reindex
    THEN _index_file(L, dirname(path), basename(path), file.domains, TRUE)
    ELSE Restore(L, join(dirname(path), basename(path)), file.entities)

\* for path, file in data.items()
RECURSIVE LoadEntries(_, _, _, _)
LoadStep(r, data, reindex, i) ==
    IF r.err # "None" THEN [L |-> r.L, err |-> r.err]
    ELSE LoadEntries(r.L, data, reindex, i + 1)

LoadEntries(L, data, reindex, i) ==
    IF i > Len(data) THEN [L |-> L, err |-> "None"]
    ELSE LoadStep(LoadEntry(L, data[i].k, data[i].v, reindex), data, reindex, i)

\* Layout.load_index(filename, reindex) on the document data
load_index(L, data, reindex) == LoadEntries(_reset_index(L), data, reindex, 1)

(***************************************************************************)
(* utils.natural_sort                                                      *)
(***************************************************************************)
\* the characters of the model in code-point order (all are lower case)
CodePoints ==
    <<"-", ".", "/", "0", "1", "2", "3", "4", "5", "6", "7", "8", "9",
      "b", "c", "j", "l", "n", "r", "s", "t", "u", "v", "w", "x">>

Ord(c) == CHOOSE i \in 1..Len(CodePoints) : CodePoints[i] = c

\* a < b for strings
StrLess(a, b) ==
    \E i \in 1..(Len(b)) :
        /\ \A j \in 1..(i - 1) : j <= Len(a) /\ a[j] = b[j]
        /\ \/ i = Len(a) + 1
           \/ i <= Len(a) /\ Ord(a[i]) < Ord(b[i])

\* x < y for ints written without leading zeros
CanonLess(x, y) == Len(x) < Len(y) \/ (Len(x) = Len(y) /\ StrLess(x, y))

\* int(a) < int(b) for digit strings
IntLess(a, b) == CanonLess(StripZeros(a), StripZeros(b))

\* re.split('([0-9]+)', key): text and digit runs alternating, text first
RECURSIVE SplitDigits(_)
SplitAtRun(s, i, j) ==
    <<SubSeq(s, 1, i - 1), SubSeq(s, i, j)>> \o SplitDigits(SubSeq(s, j + 1, Len(s)))

SplitAtDigit(s, i) == SplitAtRun(s, i, DigitRunEnd(s, i))

SplitDigits(s) ==
    IF \A i \in 1..Len(s) : s[i] \notin Digits THEN <<s>>
    ELSE SplitAtDigit(s, Min({i \in 1..Len(s) : s[i] \in Digits}))

\* the converted elements at position i are equal / ordered: digit runs (the
\* even positions) are compared as ints
KeySame(ka, kb, i) ==
    IF i % 2 = 0 THEN StripZeros(ka[i]) = StripZeros(kb[i]) ELSE ka[i] = kb[i]

KeyElemLess(ka, kb, i) ==
    IF i % 2 = 0 THEN IntLess(ka[i], kb[i]) ELSE StrLess(ka[i], kb[i])

\* ka < kb for lists, compared element by element
KeyListLess(ka, kb) ==
    \E i \in 1..Len(kb) :
        /\ \A j \in 1..(i - 1) : j <= Len(ka) /\ KeySame(ka, kb, j)
        /\ \/ i = Len(ka) + 1
           \/ i <= Len(ka) /\ KeyElemLess(ka, kb, i)

\* alphanum_key(a) < alphanum_key(b)
KeyLess(a, b) == KeyListLess(SplitDigits(a), SplitDigits(b))

\* x put into a sorted list, after every element that is not greater than it
RECURSIVE SortInsert(_, _)
SortInsert(sorted, x) ==
    IF sorted = << >> THEN <<x>>
    ELSE IF KeyLess(x, sorted[Len(sorted)])
         THEN Append(SortInsert(SubSeq(sorted, 1, Len(sorted) - 1), x),
                     sorted[Len(sorted)])
    ELSE Append(sorted, x)

RECURSIVE SortFrom(_, _, _)
SortFrom(sorted, l, i) ==
    IF i > Len(l) THEN sorted ELSE SortFrom(SortInsert(sorted, l[i]), l, i + 1)

\* sorted(l, key=alphanum_key): stable
natural_sort(l) == SortFrom(<< >>, l, 1)

(***************************************************************************)
(* Queries.  A filter value is None or a list of strings and ints; a       *)
(* string is taken as a literal regex.                                     *)
(***************************************************************************)
FNone == [none |-> TRUE, alts |-> << >>]

FList(alts) == [none |-> FALSE, alts |-> alts]

FStr(chars) == [int |-> FALSE, s |-> chars]

FInt(chars) == [int |-> TRUE, s |-> chars]

\* the search with the characters before the number left unchecked: the
\* variant that C11_IntFilterMatchesPaddedValue tells apart from
\* SearchMakePatt
SearchMakePattSuffix(x, regex_search, s) ==
    IF regex_search THEN Contains(s, x.s)
    ELSE IF x.int THEN EndsWith(s, x.s)
    ELSE s = x.s

\* re.search(make_patt(x), s) is not None
SearchMakePatt(x, regex_search, s) ==
    IF regex_search THEN Contains(s, x.s)
    ELSE IF x.int
         THEN /\ EndsWith(s, x.s)
              /\ \A i \in 1..(Len(s) - Len(x.s)) : s[i] = "0"
    ELSE s = x.s

\* the loop body with the test for a missing tag left out: the variant that
\* C10_MissingKeyExcludesUnlessNone tells apart from MatchesFilter
MatchesFilterLenient(f, name, val, regex_search) ==
    \/ name \notin DOMAIN f.tags
    \/ /\ ~val.none
       /\ \E j \in 1..Len(val.alts) :
              SearchMakePatt(val.alts[j], regex_search, f.tags[name].value.s)

\* the body of the loop over entities.items() in _matches
MatchesFilter(f, name, val, regex_search) ==
    /\ (name \notin DOMAIN f.tags) = val.none
    /\ ~val.none =>
           \E j \in 1..Len(val.alts) :
               SearchMakePatt(val.alts[j], regex_search, f.tags[name].value.s)

\* _matches with the filter keys ORed: the variant that
\* C9_GetReturnsExactlyMatching tells apart from _matches
MatchesAnyKey(L, f, entities, extensions, domains, regex_search) ==
    /\ ~extensions.none =>
           \E i \in 1..Len(extensions.list) : EndsWith(f.path, extensions.list[i])
    /\ ~domains.none => FileDomains(L, f) \cap Elems(domains.list) # {}
    /\ entities # << >> =>
           \E i \in 1..Len(entities) :
               MatchesFilter(f, entities[i].k, entities[i].v, regex_search)

\* File._matches(entities, extensions, domains, regex_search)
_matches(L, f, entities, extensions, domains, regex_search) ==
    /\ ~extensions.none =>
           \E i \in 1..Len(extensions.list) : EndsWith(f.path, extensions.list[i])
    /\ ~domains.none => FileDomains(L, f) \cap Elems(domains.list) # {}
    /\ \A i \in 1..Len(entities) :
           MatchesFilter(f, entities[i].k, entities[i].v, regex_search)

\* the paths of the files from the i-th on that match
RECURSIVE GetFrom(_, _, _, _)
GetFrom(L, q, regex_search, i) ==
    IF i > Len(L.files) THEN << >>
    ELSE (IF _matches(L, L.files[i].v, q.filters, q.extensions, q.domains,
                      regex_search)
          THEN <<L.files[i].v.path>> ELSE << >>)
             \o GetFrom(L, q, regex_search, i + 1)

\* Layout.get(return_type='file', extensions, domains, regex_search, **kwargs)
get(L, q) ==
    natural_sort(GetFrom(L, q, IF q.regex_search = "None" THEN L.regex_search
                               ELSE q.regex_search = "True", 1))

(***************************************************************************)
(* Layout.__init__(root, config, config_filename=..., include=...,         *)
(* exclude=...) with index=None: the domains of config are loaded, then    *)
(* index() runs.  configs is the list of (config, root) pairs.             *)
(***************************************************************************)
\* for c in listify(config): self._load_domain(c, from_init=True)
RECURSIVE LoadConfigs(_, _, _)
LoadConfigs(r, configs, i) ==
    IF i > Len(configs) \/ r.err # "None" THEN r
    ELSE LoadConfigs(_load_domain(r.L, configs[i].src, configs[i].root, TRUE),
                     configs, i + 1)

\* the end of __init__: self.index()
ConstructIndex(loaded, order) ==
    IF loaded.err # "None"
    THEN [L |-> loaded.L, err |-> loaded.err, walked |-> << >>]
    ELSE index(loaded.L, order)

Construct(root, configs, config_filename, include, exclude, order) ==
    ConstructIndex(LoadConfigs([L |-> NewLayout(root, config_filename, include, exclude),
                                err |-> "None", name |-> ""], configs, 1),
                   order)
(***************************************************************************)
(* make_patt with a number: '%s' % x gives the decimal digits of x.        *)
(***************************************************************************)
DigitSeq == <<"0", "1", "2", "3", "4", "5", "6", "7", "8", "9">>

\* '%s' % n for an int n >= 0
RECURSIVE Repr(_)
Repr(n) ==
    IF n < 10 THEN <<DigitSeq[n + 1]>>
    ELSE Repr(n \div 10) \o <<DigitSeq[(n % 10) + 1]>>

\* the numbers and the stored values that make_patt is applied to
MaxInt == 12

MaxDigits == 3

StoredDigits == {"0", "1", "2"}

StoredValues == UNION {[1..k -> StoredDigits] : k \in 1..MaxDigits}

PattInputs ==
    [x : 0..MaxInt, regex_search : BOOLEAN, value : StoredValues]

(***************************************************************************)
(* The inputs                                                              *)
(***************************************************************************)
\* how many times the index is rebuilt (index() or load_index()) after
\* construction
MaxIndexCalls == 1

Dict(config) == [path |-> << >>, dict |-> config]

Str(path) == [path |-> path, dict |-> CfgNested]

Base(c) == [src |-> Dict(c), root |-> << >>]

\* the nested config given to the constructor with its root
Nested == [src |-> Str(ConfigFilePath), root |-> <<DirU>>]

Setup(configs, include, exclude, config_filename) ==
    [configs |-> configs, include |-> include, exclude |-> exclude,
     config_filename |-> config_filename]

\* the arguments of the constructor
Setups ==
    {Setup(<<Base(CfgPlain)>>, << >>, << >>, LayoutJson),
     Setup(<<Base(CfgMandatory)>>, << >>, << >>, LayoutJson),
     Setup(<<Base(CfgExclude)>>, << >>, << >>, LayoutJson),
     Setup(<<Base(CfgExcludeAnchor)>>, << >>, << >>, LayoutJson),
     Setup(<<Base(CfgInclude)>>, << >>, << >>, LayoutJson),
     Setup(<<Base(CfgPlain)>>, << >>, <<PatV>>, LayoutJson),
     Setup(<<Base(CfgPlain)>>, <<PatS>>, << >>, LayoutJson),
     Setup(<<Base(CfgExclude)>>, <<PatS>>, << >>, LayoutJson),
     Setup(<<Base(CfgPlain), Nested>>, << >>, << >>, LayoutJson),
     Setup(<<Base(CfgMandatory), Nested>>, << >>, << >>, LayoutJson),
     Setup(<<Base(CfgPlain)>>, << >>, << >>, ConfigName),
     Setup(<<Base(CfgMandatory)>>, << >>, << >>, ConfigName),
     Setup(<<Base(CfgInclude)>>, << >>, << >>, ConfigName)}

Orders == {<<"b", "n">>, <<"n", "b">>}

\* the arguments of a later _load_domain call
LoadInputs ==
    {[src |-> Str(ConfigFilePath), root |-> << >>],
     [src |-> Str(DirU), root |-> << >>],
     [src |-> Str(join(RootDir, <<"x", ".", "t">>)), root |-> << >>],
     [src |-> Dict(CfgPlain), root |-> <<RootDir>>],
     [src |-> Dict(CfgNested), root |-> <<DirU>>],
     [src |-> Dict(CfgNested), root |-> << >>],
     [src |-> Dict(CfgBoth), root |-> <<DirU>>]}

\* an entity named like the alias of run
EntR ==
    [name |-> "r", pre |-> <<"x">>, mandatory |-> FALSE, dtype |-> "None",
     aliases |-> << >>, directory |-> << >>, map_func |-> "None"]

\* the configs of further domains: m declares r and then run with its alias
\* r, k declares them the other way round, and a declares subject with the
\* alias sub
AliasConfigs ==
    {[CfgPlain EXCEPT !.name = "m", !.entities = <<EntR, EntRun>>],
     [CfgPlain EXCEPT !.name = "k", !.entities = <<EntRun, EntR>>],
     [CfgPlain EXCEPT !.name = "a", !.entities = <<EntSubjectN>>]}

NoExt == [none |-> TRUE, list |-> << >>]

NoDomains == [none |-> TRUE, list |-> << >>]

Query(filters, extensions, domains, regex_search) ==
    [filters |-> filters, extensions |-> extensions, domains |-> domains,
     regex_search |-> regex_search]

Filter(key, val) == [k |-> key, v |-> val]

ExtT == [none |-> FALSE, list |-> << <<"t">> >>]

Queries ==
    {Query(<< >>, NoExt, NoDomains, "None"),
     Query(<< >>, ExtT, NoDomains, "None"),
     Query(<< >>, [none |-> FALSE, list |-> << <<"j">>, <<"x">> >>], NoDomains, "None"),
     Query(<< >>, NoExt, [none |-> FALSE, list |-> <<"n">>], "None"),
     Query(<<Filter(NameKey("subject"), FList(<<FStr(<<"1">>)>>))>>,
           NoExt, NoDomains, "None"),
     Query(<<Filter(NameKey("subject"), FList(<<FStr(<<"3">>), FStr(<<"2">>)>>))>>,
           ExtT, NoDomains, "False"),
     Query(<<Filter(NameKey("run"), FList(<<FInt(<<"2">>)>>))>>,
           NoExt, NoDomains, "None"),
     Query(<<Filter(NameKey("run"), FList(<<FStr(<<"0">>)>>))>>,
           NoExt, NoDomains, "True"),
     Query(<<Filter(NameKey("run"), FNone)>>, NoExt, NoDomains, "None"),
     Query(<<Filter(NameKey("subject"), FList(<<FStr(<<"1">>)>>)),
             Filter(NameKey("run"), FList(<<FInt(<<"1">>), FInt(<<"2">>)>>))>>,
           ExtT, [none |-> FALSE, list |-> <<"b">>], "None"),
     Query(<<Filter(EntityId("b", "subject"), FList(<<FStr(<<"1">>)>>))>>,
           NoExt, NoDomains, "None")}


(***************************************************************************)
(* get() with the return types 'tuple', 'id' and 'dir'.  A call gives      *)
(* [err, list]: the exception raised ("None" when it returned) and the     *)
(* list returned.                                                          *)
(***************************************************************************)
Returns(l) == [err |-> "None", list |-> l]

Raises(e) == [err |-> e, list |-> << >>]

\* the File objects from the i-th on that match: the loop over
\* self.files.items() in get
RECURSIVE GetObjs(_, _, _, _)
GetObjs(L, q, regex_search, i) ==
    IF i > Len(L.files) THEN << >>
    ELSE (IF _matches(L, L.files[i].v, q.filters, q.extensions, q.domains,
                      regex_search)
          THEN <<L.files[i].v>> ELSE << >>)
             \o GetObjs(L, q, regex_search, i + 1)

\* File.as_named_tuple: the path and the entity values
as_named_tuple(f) == [filename |-> f.path, entities |-> FileEntities(f)]

\* namedtuple takes a key as a field name when it is an identifier: a key
\* "domain.name" is refused with ValueError
IsFieldName(key) == key[1] = ""

\* natural_sort(result, field='filename') of the named tuples: the paths are
\* sorted and each stands for its tuple
TuplesOf(L, paths) ==
    [i \in 1..Len(paths) |-> as_named_tuple(DictGet(L.files, paths[i]))]

GetTuple(L, objs) ==
    IF \E i \in 1..Len(objs) : \E key \in DOMAIN objs[i].tags : ~IsFieldName(key)
    THEN Raises("ValueError")
    ELSE Returns(TuplesOf(L, natural_sort([i \in 1..Len(objs) |-> objs[i].path])))

\* d.update(more), from the i-th entry of more on
RECURSIVE DictUpdate(_, _, _)
DictUpdate(d, more, i) ==
    IF i > Len(more) THEN d
    ELSE DictUpdate(DictSet(d, more[i].k, more[i].v), more, i + 1)

\* get_domain_entities(domains): the Domain.entities dicts merged in the
\* order of the list, a later domain replacing the entries of an earlier one

RECURSIVE DomainEntitiesFrom(_, _, _, _)
DomainEntitiesFrom(L, domains, ents, i) ==
    IF i > Len(domains) THEN ents
    ELSE DomainEntitiesFrom(L, domains,
                            DictUpdate(ents, DictGet(L.domains, domains[i]).entities, 1),
                            i + 1)

get_domain_entities(L, domains) == DomainEntitiesFrom(L, domains, << >>, 1)

\* the domains that get hands to get_domain_entities
DomainList(L, domains) ==
    IF domains.none THEN [i \in 1..Len(L.domains) |-> L.domains[i].k]
    ELSE domains.list

\* the values of the target in the matching files that carry it
TargetValues(objs, target) ==
    {objs[i].tags[NameKey(target)].value :
        i \in {j \in 1..Len(objs) : NameKey(target) \in DOMAIN objs[j].tags}}

\* natural_sort of the values in the order ids that list(set(..)) gave:
\* re.split raises TypeError for a value that is not a string
GetId(ids) ==
    IF \E i \in 1..Len(ids) : ids[i].int THEN Raises("TypeError")
    ELSE Returns(natural_sort([i \in 1..Len(ids) |-> ids[i].s]))

\* re.search(pattern + '[^\/]*$', dirname), pattern being pre(\d+)
SearchDirectory(pre, s) ==
    \E i \in 1..Len(s) :
        /\ StartsWithAt(s, pre, i)
        /\ i + Len(pre) <= Len(s)
        /\ s[i + Len(pre)] \in Digits
        /\ \A j \in (i + Len(pre))..Len(s) : s[j] # SEP

\* the directories of all the files of the layout that the template matches
MatchedDirs(L, pre) ==
    {dirname(L.files[i].v.path) :
        i \in {j \in 1..Len(L.files) : SearchDirectory(pre, dirname(L.files[j].v.path))}}

\* the 'dir' branch: dirs is list(set(matches)) in the order the set gave
GetDir(L, valid_entities, target, dirs) ==
    IF ~DictHas(valid_entities, target) THEN Raises("KeyError")
    ELSE IF L.heap[DictGet(valid_entities, target)].directory = << >>
         THEN Raises("ValueError")
    ELSE IF ~DictHas(valid_entities,
                     L.heap[DictGet(valid_entities, target)].directory[1])
         THEN Raises("KeyError")
    ELSE Returns(natural_sort(dirs))

\* the pattern that the template of the target is turned into
TemplatePre(L, valid_entities, target) ==
    L.heap[DictGet(valid_entities,
                   L.heap[DictGet(valid_entities, target)].directory[1])].pre

\* ProjectedSet with the directories taken from the files that passed the
\* filters of the call
ProjectedSetFiltered(L, q, objs) ==
    IF \E i \in 1..Len(DomainList(L, q.domains)) :
           ~DictHas(L.domains, DomainList(L, q.domains)[i])
    THEN {}
    ELSE IF q.return_type = "id" THEN TargetValues(objs, q.target)
    ELSE IF /\ q.return_type = "dir"
            /\ GetDir(L, get_domain_entities(L, DomainList(L, q.domains)),
                      q.target, << >>).err = "None"
         THEN {dirname(objs[i].path) :
                  i \in {j \in 1..Len(objs) :
                            SearchDirectory(
                                TemplatePre(L, get_domain_entities(L, DomainList(L, q.domains)),
                                            q.target),
                                dirname(objs[j].path))}}
    ELSE {}

\* the set that the 'id' or 'dir' branch turns into a list before sorting it
ProjectedSet(L, q, objs) ==
    IF \E i \in 1..Len(DomainList(L, q.domains)) :
           ~DictHas(L.domains, DomainList(L, q.domains)[i])
    THEN {}
    ELSE IF q.return_type = "id" THEN TargetValues(objs, q.target)
    ELSE IF /\ q.return_type = "dir"
            /\ GetDir(L, get_domain_entities(L, DomainList(L, q.domains)),
                      q.target, << >>).err = "None"
         THEN MatchedDirs(L, TemplatePre(L, get_domain_entities(L, DomainList(L, q.domains)),
                                         q.target))
    ELSE {}

\* the branches of get for the return types other than 'file'; listed is
\* list(set(..)) of the 'id' or 'dir' branch
GetBranch(L, q, objs, listed) ==
    IF q.return_type = "tuple" THEN GetTuple(L, objs)
    ELSE IF \E i \in 1..Len(DomainList(L, q.domains)) :
                ~DictHas(L.domains, DomainList(L, q.domains)[i])
         THEN Raises("KeyError")
    ELSE IF q.return_type = "id" THEN GetId(listed)
    ELSE GetDir(L, get_domain_entities(L, DomainList(L, q.domains)), q.target, listed)

\* Layout.get(return_type, target, extensions, domains, regex_search, **kwargs)
get_return_type(L, q, listed) ==
    GetBranch(L, q,
              GetObjs(L, q, IF q.regex_search = "None" THEN L.regex_search
                            ELSE q.regex_search = "True", 1),
              listed)

\* the set that list(set(..)) enumerates in the call
get_set(L, q) ==
    ProjectedSet(L, q, GetObjs(L, q, IF q.regex_search = "None" THEN L.regex_search
                                     ELSE q.regex_search = "True", 1))

\* the lists that enumerate the set S once each
ListsOf(S) ==
    {l \in [1..Cardinality(S) -> S] : \A i, j \in 1..Cardinality(S) : l[i] = l[j] => i = j}

Projection(q, return_type, target) ==
    [filters |-> q.filters, extensions |-> q.extensions, domains |-> q.domains,
     regex_search |-> q.regex_search, return_type |-> return_type,
     target |-> target]

\* the get calls with a return type other than 'file'
Projections ==
    {Projection(Query(<< >>, NoExt, NoDomains, "None"), "tuple", ""),
     Projection(Query(<< >>, ExtT, NoDomains, "None"), "tuple", ""),
     Projection(Query(<< >>, NoExt, NoDomains, "None"), "id", "subject"),
     Projection(Query(<< >>, NoExt, NoDomains, "None"), "id", "run"),
     Projection(Query(<< >>, NoExt, NoDomains, "None"), "id", "session"),
     Projection(Query(<< >>, NoExt, [none |-> FALSE, list |-> <<"n">>], "None"),
                "id", "subject"),
     Projection(Query(<< >>, NoExt, NoDomains, "None"), "dir", "subject"),
     Projection(Query(<< >>, NoExt, NoDomains, "None"), "dir", "run")}

\* the get calls with return type 'dir' and the target subject: without
\* filter, with an extension that no file has, with entity filters, and with
\* the domain b named
DirProjections ==
    {Projection(Query(<< >>, NoExt, NoDomains, "None"), "dir", "subject"),
     Projection(Query(<< >>, [none |-> FALSE, list |-> << <<"x">> >>],
                      [none |-> FALSE, list |-> <<"b">>], "None"), "dir", "subject"),
     Projection(Query(<<Filter(NameKey("subject"), FList(<<FStr(<<"2">>)>>))>>,
                      NoExt, [none |-> FALSE, list |-> <<"b">>], "None"),
                "dir", "subject"),
     Projection(Query(<<Filter(NameKey("run"), FList(<<FInt(<<"2">>)>>))>>,
                      ExtT, NoDomains, "None"), "dir", "subject"),
     Projection(Query(<< >>, NoExt, [none |-> FALSE, list |-> <<"b">>], "None"),
                "dir", "subject")}

\* /r/s10/s10r1.t and /r/s2/s2r1.t, which parse_file_entities is given
DirParseInputs ==
    [filename : {<<"/", "r", "/", "s", "1", "0", "/", "s", "1", "0", "r", "1", ".", "t">>,
                 <<"/", "r", "/", "s", "2", "/", "s", "2", "r", "1", ".", "t">>},
     domains  : {NoDomains}]

(***************************************************************************)
(* Layout.get_nearest(path, return_type='file', strict, all_,              *)
(* ignore_strict_entities, **kwargs).  The call is a record X of its       *)
(* locals: L, entities (name -> matched group), results (the paths that    *)
(* get returned), strict and all_.                                         *)
(***************************************************************************)
\* entities[ent.name] = m.group(1) when the pattern matched
PathEntity(ents, name, group) ==
    IF group = << >> THEN ents ELSE MapSet(ents, name, group)

\* for ent in self.entities.values(): m = ent.regex.search(path) ...
RECURSIVE PathEntitiesFrom(_, _, _, _)
PathEntitiesFrom(L, path, ents, i) ==
    IF i > Len(L.entities) THEN ents
    ELSE PathEntitiesFrom(L, path,
                          PathEntity(ents, L.heap[L.entities[i].v].name,
                                     SearchGroup(L.heap[L.entities[i].v].pre, path)),
                          i + 1)

\* for k in ignore_strict_entities: entities.pop(k, None)
PopIgnored(ents, strict, ignore) ==
    IF strict /\ ~ignore.none
    THEN [k \in (DOMAIN ents) \ Elems(ignore.list) |-> ents[k]]
    ELSE ents

\* folders[d]: the files of results in the directory d, in the order of results
Folder(X, d) == SelectSeq(X.results, LAMBDA p : dirname(p) = d)

\* entities[k] == f_ents[k]: a matched group is a str, which no int equals
SameValue(group, value) == ~value.int /\ value.s = group

\* count_matches(f): the shared keys and those with equal values
SharedKeys(X, f) == {k \in DOMAIN X.entities : NameKey(k) \in DOMAIN f.tags}

Agreeing(X, f) ==
    {k \in SharedKeys(X, f) : SameValue(X.entities[k], f.tags[NameKey(k)].value)}

count_matches(X, f) ==
    <<Cardinality(SharedKeys(X, f)), Cardinality(Agreeing(X, f))>>

\* num_ents with the strict filter left out: the variant that
\* C13_StrictMatchesAgree tells apart from NumEnts
NumEntsUnfiltered(X, folder) == folder

\* num_ents after the strict filter: the paths of the folder that are kept
NumEnts(X, folder) ==
    SelectSeq(folder,
              LAMBDA p : X.strict => count_matches(X, DictGet(X.L.files, p))[1]
                                       = count_matches(X, DictGet(X.L.files, p))[2])

\* num_ents.sort(key=lambda x: x[2], reverse=True)[0]: the first of the
\* entries with the most equal values
FirstSorted(X, num_ents) ==
    num_ents[Min({i \in 1..Len(num_ents) :
                     \A j \in 1..Len(num_ents) :
                         count_matches(X, DictGet(X.L.files, num_ents[j]))[2]
                             <= count_matches(X, DictGet(X.L.files, num_ents[i]))[2]})]

\* if num_ents: matches.append(num_ents[0][0])
AppendFirst(X, matches, num_ents) ==
    IF num_ents # << >> THEN Append(matches, FirstSorted(X, num_ents)) ELSE matches

\* the while loop, run for at most fuel iterations: [matches, steps, done]
RECURSIVE NearestLoop(_, _, _, _, _)
\* the end of the loop body with the test for an unchanged path left out:
\* the variant that C15_NearestTerminates tells apart from NearestUp
NearestUpAlways(X, path, matches, steps, fuel) ==
    NearestLoop(X, split(path)[1], matches, steps, fuel)

\* the try block at the end of the loop body
NearestUp(X, path, matches, steps, fuel) ==
    IF split(path)[1] = path
    THEN [matches |-> matches, steps |-> steps, done |-> TRUE]
    ELSE NearestLoop(X, split(path)[1], matches, steps, fuel)

\* the body for a path that is a key of folders
NearestAt(X, path, matches, steps, fuel) ==
    IF ~X.all_ THEN [matches |-> matches, steps |-> steps, done |-> TRUE]
    ELSE NearestUp(X, path, matches, steps, fuel)

NearestLoop(X, path, matches, steps, fuel) ==
    IF fuel = steps THEN [matches |-> matches, steps |-> steps, done |-> FALSE]
    ELSE IF Folder(X, path) # << >>
         THEN NearestAt(X, path, AppendFirst(X, matches, NumEnts(X, Folder(X, path))),
                        steps + 1, fuel)
    ELSE NearestUp(X, path, matches, steps + 1, fuel)

\* return matches if all_ else matches[0] if matches else None: none tells
\* that None is returned, and the one path p is written <<p>>
NearestReturn(loop, all_) ==
    [none  |-> ~all_ /\ loop.matches = << >>,
     list  |-> IF all_ \/ loop.matches = << >> THEN loop.matches
               ELSE <<loop.matches[1]>>,
     steps |-> loop.steps,
     done  |-> loop.done]

NearestCall(L, in) ==
    [L        |-> L,
     entities |-> PopIgnored(PathEntitiesFrom(L, in.path, << >>, 1), in.strict,
                             in.ignore_strict_entities),
     results  |-> get(L, in.kwargs),
     strict   |-> in.strict,
     all_     |-> in.all_]

\* the iterations that the loop is given: more than the path has characters
MaxSteps(path) == Len(path) + 2

get_nearest(L, in) ==
    NearestReturn(NearestLoop(NearestCall(L, in), in.path, << >>, 0,
                              MaxSteps(in.path)),
                  in.all_)

NoIgnore == [none |-> TRUE, list |-> << >>]

IgnoreRun == [none |-> FALSE, list |-> <<"run">>]

\* the starting paths: files that are not indexed below /r/v/w and /r/s1,
\* an indexed file, a directory, a relative path and the empty path
NearestPaths ==
    {<<"/", "r", "/", "v", "/", "w", "/", "s", "2", "r", "1", ".", "x">>,
     <<"/", "r", "/", "v", "/", "w", "/", "s", "2", "r", "2", ".", "x">>,
     <<"/", "r", "/", "v", "/", "w", "/", "s", "1", ".", "x">>,
     <<"/", "r", "/", "s", "1", "/", "s", "1", "r", "1", ".", "t">>,
     <<"/", "r", "/", "v", "/", "w">>,
     <<"s", "1", "/", "s", "1", ".", "x">>,
     << >>}

NearestInputs ==
    [path : NearestPaths, strict : BOOLEAN, all_ : BOOLEAN,
     ignore_strict_entities : {NoIgnore, IgnoreRun},
     kwargs : {Query(<< >>, NoExt, NoDomains, "None")}]

(***************************************************************************)
(* Layout.parse_file_entities(filename, domains): [L, err, entities]       *)
(***************************************************************************)
\* return result.entities, of the File that _index_file returned
ParsedEntities(r) ==
    [L |-> r.L, err |-> r.err,
     entities |-> IF r.err = "None" THEN FileEntities(r.f) ELSE << >>]

parse_file_entities(L, filename, domains) ==
    IF dirname(filename) = << >> /\ domains.none
    THEN [L |-> L, err |-> "ValueError", entities |-> << >>]
    ELSE ParsedEntities(_index_file(L, dirname(filename), basename(filename),
                                    IF domains.none THEN << >> ELSE domains.list,
                                    FALSE))

\* the calls of parse_file_entities: an indexed file, a file that is not in
\* the tree and a relative name, without domains, with the domain b and
\* with a domain that is not loaded
ParseInputs ==
    [filename : {<<"/", "r", "/", "s", "1", "/", "s", "1", "r", "1", ".", "t">>,
                 <<"/", "r", "/", "s", "7", "/", "s", "7", "r", "3", ".", "t">>,
                 <<"s", "1", "r", "1", ".", "t">>},
     domains  : {NoDomains, [none |-> FALSE, list |-> <<"b">>],
                 [none |-> FALSE, list |-> <<"z">>]}]

(***************************************************************************)
(* Entities with a mapping function, added with Layout.add_entity after    *)
(* construction.                                                           *)
(***************************************************************************)
EntKind(map_func) ==
    [name |-> "kind", pre |-> << >>, mandatory |-> FALSE, dtype |-> "None",
     aliases |-> << >>, directory |-> << >>, map_func |-> map_func]

MapFuncs == {"raise_j", "raise_x"}

\* layout.add_entity(domain=layout.domains[name], **e): the Domain object of
\* the call is the one that the layout holds
AddEntityTo(L, name, e) ==
    LoadRegister(add_entity([L |-> L, domain |-> DictGet(L.domains, name)], e)).L

(***************************************************************************)
(* merge_layouts(layouts).  The Entity objects of a layout that is merged  *)
(* in are placed in the heap of the merged layout after those it holds,    *)
(* off positions further, and what refers to them is moved along.          *)
(***************************************************************************)
ShiftTags(tags, off) ==
    [key \in DOMAIN tags |-> [tags[key] EXCEPT !.entity = @ + off]]

\* l.files, l.domains and l.entities as the merged layout refers to them
ShiftFiles(files, off) ==
    [i \in 1..Len(files) |->
        [k |-> files[i].k,
         v |-> [files[i].v EXCEPT !.tags = ShiftTags(@, off)]]]

ShiftRefs(d, off) == [i \in 1..Len(d) |-> [k |-> d[i].k, v |-> d[i].v + off]]

ShiftDomains(domains, off) ==
    [i \in 1..Len(domains) |->
        [k |-> domains[i].k,
         v |-> [domains[i].v EXCEPT !.entities = ShiftRefs(@, off)]]]

\* a.update(b) for the path -> value map of an Entity
FilesUpdate(a, b) ==
    [path \in (DOMAIN a) \cup (DOMAIN b) |->
        IF path \in DOMAIN b THEN b[path] ELSE a[path]]

\* the loop body that keeps the Entity of the merged layout as it is: the
\* variant that C18_LaterLayoutsWin tells apart from MergeEntity
MergeEntityKeepFirst(M, k, ref) ==
    IF ~DictHas(M.entities, k)
    THEN [M EXCEPT !.entities = DictSet(@, k, ref)]
    ELSE M

\* the body of the loop over l.entities.items(), for the key k and the
\* Entity at ref
MergeEntity(M, k, ref) ==
    IF ~DictHas(M.entities, k)
    THEN [M EXCEPT !.entities = DictSet(@, k, ref)]
    ELSE [M EXCEPT !.heap[DictGet(M.entities, k)].files =
                       FilesUpdate(@, M.heap[ref].files)]

RECURSIVE MergeEntitiesFrom(_, _, _)
MergeEntitiesFrom(M, ents, i) ==
    IF i > Len(ents) THEN M
    ELSE MergeEntitiesFrom(MergeEntity(M, ents[i].k, ents[i].v), ents, i + 1)

\* the body of the loop over layouts[1:]
MergeOne(M, l, off) ==
    MergeEntitiesFrom([M EXCEPT !.files = DictUpdate(@, ShiftFiles(l.files, off), 1),
                                !.domains = DictUpdate(@, ShiftDomains(l.domains, off), 1),
                                !.heap = @ \o l.heap],
                      ShiftRefs(l.entities, off), 1)

RECURSIVE MergeFrom(_, _, _)
MergeFrom(M, layouts, i) ==
    IF i > Len(layouts) THEN M
    ELSE MergeFrom(MergeOne(M, layouts[i], Len(M.heap)), layouts, i + 1)

\* Layout.clone: deepcopy gives an equal object
clone(L) == L

merge_layouts(layouts) == MergeFrom(clone(layouts[1]), layouts, 2)

\* the number of Entity objects that the merged layout holds before those of
\* layouts[i]
RECURSIVE HeapOffset(_, _)
HeapOffset(layouts, i) ==
    IF i <= 1 THEN 0 ELSE HeapOffset(layouts, i - 1) + Len(layouts[i - 1].heap)

\* layouts[i] once merge_layouts gave M.  layouts[0] was copied; the Entity
\* objects of every other layout are the ones M refers to, not copies, so
\* what line 1115 did to them is seen through the input layout as well
InputAfter(M, layouts, i) ==
    IF i = 1 THEN layouts[1]
    ELSE [layouts[i] EXCEPT !.heap =
             SubSeq(M.heap, HeapOffset(layouts, i) + 1,
                    HeapOffset(layouts, i) + Len(layouts[i].heap))]

InputsAfter(M, layouts) == [i \in 1..Len(layouts) |-> InputAfter(M, layouts, i)]

\* the domain b with 'subject' as the digits after r
CfgOther == [CfgPlain EXCEPT !.entities = <<EntSubjectN>>]

\* the layouts that are merged: Layout(root, config) for these
LayoutOf(root, config) ==
    Construct(root, <<Base(config)>>, LayoutJson, << >>, << >>, <<"b", "n">>).L

MergeLayouts ==
    {LayoutOf(DirS1, CfgPlain), LayoutOf(DirV, CfgPlain), LayoutOf(RootDir, CfgPlain),
     LayoutOf(DirS1, CfgOther), LayoutOf(RootDir, CfgOther),
     LayoutOf(DirU, CfgNested)}

\* the length of the list of layouts
MaxLayouts == 3

MergeInputs == UNION {[1..n -> MergeLayouts] : n \in 2..MaxLayouts}

(***************************************************************************)
(* extensions/writable.py: replace_entities and build_path.  A result is   *)
(* [none, s]: None, or the string s.  An entity map is a function from     *)
(* names to values, both strings.                                          *)
(***************************************************************************)
\* the first position from i on where s holds the character c, 0 if none
IndexFrom(s, c, i) ==
    IF \E j \in i..Len(s) : s[j] = c THEN Min({j \in i..Len(s) : s[j] = c}) ELSE 0

\* re.findall(open + '(.*?)' + close, s) from position i on: the text
\* between each opening character and the next closing one
RECURSIVE FindAllFrom(_, _, _, _)
FindAllAt(s, open, close, from, to) ==
    IF from = 0 \/ to = 0 THEN << >>
    ELSE <<SubSeq(s, from + 1, to - 1)>> \o FindAllFrom(s, open, close, to + 1)

FindAllFrom(s, open, close, i) ==
    FindAllAt(s, open, close, IndexFrom(s, open, i),
              IF IndexFrom(s, open, i) = 0 THEN 0
              ELSE IndexFrom(s, close, IndexFrom(s, open, i) + 1))

\* s.replace(old, new), old not empty: every occurrence, from the left
RECURSIVE Replace(_, _, _)
Replace(s, old, new) ==
    IF s = << >> THEN << >>
    ELSE IF StartsWithAt(s, old, 1)
         THEN new \o Replace(SubSeq(s, Len(old) + 1, Len(s)), old, new)
    ELSE <<s[1]>> \o Replace(SubSeq(s, 2, Len(s)), old, new)

\* the loop of replace_entities over ents, on r = [matched, s]
RECURSIVE ReplaceEntsFrom(_, _, _, _)
ReplaceEnt(r, ent, entities) ==
    IF ent \in DOMAIN entities
    THEN [r EXCEPT !.s = Replace(@, <<"{">> \o ent \o <<"}">>, entities[ent])]
    ELSE [r EXCEPT !.matched = FALSE]

ReplaceEntsFrom(r, ents, entities, i) ==
    IF i > Len(ents) THEN r
    ELSE ReplaceEntsFrom(ReplaceEnt(r, ents[i], entities), ents, entities, i + 1)

\* return new_path if ents_matched else None
ReplacedOrNone(r) == [none |-> ~r.matched, s |-> IF r.matched THEN r.s ELSE << >>]

replace_entities(pattern, entities) ==
    ReplacedOrNone(ReplaceEntsFrom([matched |-> TRUE, s |-> pattern],
                                   FindAllFrom(pattern, "{", "}", 1), entities, 1))

\* ReplaceOptional without the removal of a segment that has no expansion
ReplaceOptionalKept(new_path, optional_pattern, optional_chunk) ==
    IF ~optional_chunk.none /\ optional_chunk.s # << >>
    THEN Replace(new_path, <<"[">> \o optional_pattern \o <<"]">>, optional_chunk.s)
    ELSE new_path

\* the body of the loop over optional_patterns: `if optional_chunk` is false
\* for None and for the empty string
ReplaceOptional(new_path, optional_pattern, optional_chunk) ==
    Replace(new_path, <<"[">> \o optional_pattern \o <<"]">>,
            IF ~optional_chunk.none /\ optional_chunk.s # << >>
            THEN optional_chunk.s ELSE << >>)

RECURSIVE OptionalsFrom(_, _, _, _)
OptionalsFrom(new_path, optional_patterns, entities, i) ==
    IF i > Len(optional_patterns) THEN new_path
    ELSE OptionalsFrom(ReplaceOptional(new_path, optional_patterns[i],
                                       replace_entities(optional_patterns[i], entities)),
                       optional_patterns, entities, i + 1)

\* the body of the loop over path_patterns
BuildOne(pattern, entities) ==
    replace_entities(OptionalsFrom(pattern, FindAllFrom(pattern, "[", "]", 1),
                                   entities, 1),
                     entities)

\* if new_path: return new_path; the loop falls through to return None
RECURSIVE BuildFrom(_, _, _)
BuildNext(new_path, path_patterns, entities, i) ==
    IF ~new_path.none /\ new_path.s # << >> THEN new_path
    ELSE BuildFrom(path_patterns, entities, i + 1)

BuildFrom(path_patterns, entities, i) ==
    IF i > Len(path_patterns) THEN [none |-> TRUE, s |-> << >>]
    ELSE BuildNext(BuildOne(path_patterns[i], entities), path_patterns, entities, i)

build_path(path_patterns, entities) == BuildFrom(path_patterns, entities, 1)

(***************************************************************************)
(* Path patterns as lists of parts: a character, a placeholder {name}, or  *)
(* an optional segment [parts].  Render gives the pattern string.          *)
(***************************************************************************)
Lit(c) == [kind |-> "lit", c |-> c]

Ent(name) == [kind |-> "ent", name |-> name]

Opt(parts) == [kind |-> "opt", parts |-> parts]

RECURSIVE Render(_)
RenderPart(p) ==
    IF p.kind = "lit" THEN <<p.c>>
    ELSE IF p.kind = "ent" THEN <<"{">> \o p.name \o <<"}">>
    ELSE <<"[">> \o Render(p.parts) \o <<"]">>

Render(parts) ==
    IF parts = << >> THEN << >>
    ELSE RenderPart(parts[1]) \o Render(SubSeq(parts, 2, Len(parts)))

A == <<"a">>

B == <<"b">>

C == <<"c">>

\* s{a}/[e{b}/]r{c}   [e{b}]{a}   {a}[{b}{c}]   [{b}][{c}]x{a}
\* x[{b}-]{a}[-{b}]   [e]{a}   {a}{a}   x
PathPatterns ==
    {<<Lit("s"), Ent(A), Lit("/"), Opt(<<Lit("e"), Ent(B), Lit("/")>>), Lit("r"), Ent(C)>>,
     <<Opt(<<Lit("e"), Ent(B)>>), Ent(A)>>,
     <<Ent(A), Opt(<<Ent(B), Ent(C)>>)>>,
     <<Opt(<<Ent(B)>>), Opt(<<Ent(C)>>), Lit("x"), Ent(A)>>,
     <<Lit("x"), Opt(<<Ent(B), Lit("-")>>), Ent(A), Opt(<<Lit("-"), Ent(B)>>)>>,
     <<Opt(<<Lit("e")>>), Ent(A)>>,
     <<Ent(A), Ent(A)>>,
     <<Lit("x")>>}

\* the values of an entity
PathValues == {<<"1">>, <<"0", "2">>}

\* the entity maps over the names a, b and c
EntityMaps == UNION {[names -> PathValues] : names \in SUBSET {A, B, C}}

BuildInputs == [parts : PathPatterns, entities : EntityMaps]

(***************************************************************************)
(* utils.splitext and extensions/writable.py: write_contents_to_file.  A   *)
(* disk is a function from the paths that exist to [kind, data]: a file    *)
(* with its contents, a link with its target, or a directory.              *)
(***************************************************************************)
\* s.split(c)
RECURSIVE StrSplit(_, _)
StrSplitAt(s, c, i) ==
    IF i = 0 THEN <<s>>
    ELSE <<SubSeq(s, 1, i - 1)>> \o StrSplit(SubSeq(s, i + 1, Len(s)), c)

StrSplit(s, c) == StrSplitAt(s, c, IndexFrom(s, c, 1))

\* c.join(parts), parts not empty
RECURSIVE StrJoin(_, _)
StrJoin(parts, c) ==
    IF Len(parts) = 1 THEN parts[1]
    ELSE parts[1] \o <<c>> \o StrJoin(Tail(parts), c)

splitext(path) ==
    <<join(dirname(path), StrSplit(basename(path), ".")[1])>>
        \o Tail(StrSplit(basename(path), "."))

File(data) == [kind |-> "file", data |-> data]

Link(target) == [kind |-> "link", data |-> target]

Dir == [kind |-> "dir", data |-> << >>]

islink(d, p) == p \in DOMAIN d /\ d[p].kind = "link"

\* os.path.exists: a link counts when its target exists
PathExists(d, p) == p \in DOMAIN d /\ (d[p].kind = "link" => d[p].data \in DOMAIN d)

\* os.path.isdir
PathIsDir(d, p) ==
    /\ PathExists(d, p)
    /\ d[IF d[p].kind = "link" THEN d[p].data ELSE p].kind = "dir"

Stored(d, p, entry) == (p :> entry) @@ d

\* os.remove
Removed(d, p) == [q \in DOMAIN d \ {p} |-> d[q]]

\* sys.maxsize
maxsize == 2147483647

\* os.getcwd()
Cwd == <<"/", "o">>

\* the parameters that are None or empty count as false
Truthy(x) == ~x.none /\ x.s # << >>

\* lines 131-133: the name probed in round i
AppendedFilename(path, i) ==
    StrJoin([splitext(path) EXCEPT ![1] = @ \o <<"_">> \o Repr(i)], ".")

\* the append loop without the islink test
RECURSIVE AppendLoopNoLink(_, _, _, _)
AppendLoopNoLink(d, path, i, probed) ==
    IF ~(i < maxsize) THEN [path |-> path, probed |-> probed]
    ELSE IF ~PathExists(d, AppendedFilename(path, i))
         THEN [path |-> AppendedFilename(path, i),
               probed |-> Append(probed, AppendedFilename(path, i))]
    ELSE AppendLoopNoLink(d, path, i + 1, Append(probed, AppendedFilename(path, i)))

\* the loop of lines 129-138 from i on; probed lists the names tested
RECURSIVE AppendLoop(_, _, _, _)
AppendLoop(d, path, i, probed) ==
    IF ~(i < maxsize) THEN [path |-> path, probed |-> probed]
    ELSE IF /\ ~PathExists(d, AppendedFilename(path, i))
            /\ ~islink(d, AppendedFilename(path, i))
         THEN [path |-> AppendedFilename(path, i),
               probed |-> Append(probed, AppendedFilename(path, i))]
    ELSE AppendLoop(d, path, i + 1, Append(probed, AppendedFilename(path, i)))

\* a step of the call: stop is "None" while the call goes on, "return" when
\* it returned, and the exception when it raised
Going(d, path, probed) == [stop |-> "None", disk |-> d, path |-> path, probed |-> probed]

Stopped(d, path, how) == [stop |-> how, disk |-> d, path |-> path, probed |-> << >>]

Appended(d, loop) == Going(d, loop.path, loop.probed)

\* lines 114-140
Conflict(d, path, conflicts) ==
    IF ~(PathExists(d, path) \/ islink(d, path)) THEN Going(d, path, << >>)
    ELSE IF conflicts = "fail" THEN Stopped(d, path, "ValueError")
    ELSE IF conflicts = "skip" THEN Stopped(d, path, "return")
    ELSE IF conflicts = "overwrite"
         THEN (IF PathIsDir(d, path) THEN Stopped(d, path, "return")
               ELSE Going(Removed(d, path), path, << >>))
    ELSE IF conflicts = "append" THEN Appended(d, AppendLoop(d, path, 1, << >>))
    ELSE Stopped(d, path, "ValueError")

\* os.makedirs: the directory and the ancestors that it lacks
RECURSIVE makedirs(_, _)
makedirs(d, dir) ==
    IF dir \in DOMAIN d THEN d
    ELSE Stored(makedirs(d, dirname(dir)), dir, Dir)

\* lines 142-143
MakeDirs(c) ==
    IF c.stop # "None" \/ PathExists(c.disk, dirname(c.path)) THEN c
    ELSE [c EXCEPT !.disk = makedirs(@, dirname(c.path))]

\* open(path, mode).write(contents): through a link, onto its target
Opened(d, path, contents) ==
    IF islink(d, path) THEN Stored(d, d[path].data, File(contents))
    ELSE Stored(d, path, File(contents))

\* lines 145-152
WriteOut(c, contents, link_to) ==
    IF c.stop # "None" THEN c
    ELSE IF Truthy(link_to)
         THEN (IF c.path \in DOMAIN c.disk THEN [c EXCEPT !.stop = "FileExistsError"]
               ELSE [c EXCEPT !.disk = Stored(@, c.path, Link(link_to.s))])
    ELSE IF Truthy(contents)
         THEN (IF PathIsDir(c.disk, c.path) THEN [c EXCEPT !.stop = "IsADirectoryError"]
               ELSE [c EXCEPT !.disk = Opened(@, c.path, contents.s)])
    ELSE [c EXCEPT !.stop = "ValueError"]

\* lines 108-112
Rooted(path, root) ==
    IF Truthy(root) THEN join(root.s, path)
    ELSE IF path = << >> \/ path[1] # SEP THEN join(Cwd, path)
    ELSE path

write_contents_to_file(d, in) ==
    WriteOut(MakeDirs(Conflict(d, Rooted(in.path, in.root), in.conflicts)),
             in.contents, in.link_to)

(***************************************************************************)
(* The disks and the calls of write_contents_to_file                       *)
(***************************************************************************)
None == [none |-> TRUE, s |-> << >>]

Some(s) == [none |-> FALSE, s |-> s]

\* /o/f.t
DestFT == <<"/", "o", "/", "f", ".", "t">>

\* /o/f_1.t
DestF1T == <<"/", "o", "/", "f", "_", "1", ".", "t">>

\* /o/f_2.t
DestF2T == <<"/", "o", "/", "f", "_", "2", ".", "t">>

\* /o/g
DestG == <<"/", "o", "/", "g">>

\* /s/a, a file, and /s/q, which does not exist
SourceA == <<"/", "s", "/", "a">>

SourceQ == <<"/", "s", "/", "q">>

\* the directories /, /o and /s with the files /o/f.t and /s/a
StartDisk ==
    (<<"/">> :> Dir) @@ (Cwd :> Dir) @@ (<<"/", "s">> :> Dir)
        @@ (DestFT :> File(<<"a">>)) @@ (SourceA :> File(<<"b">>))

\* also: /o/f_1.t a link to nothing; /o/f_1.t a file and /o/f_2.t a link to
\* /s/a; /o/g a link to /o/f.t and /o/g_1 a directory
StartDisks ==
    {StartDisk,
     Stored(StartDisk, DestF1T, Link(SourceQ)),
     Stored(Stored(StartDisk, DestF1T, File(<<"c">>)), DestF2T, Link(SourceA)),
     Stored(Stored(StartDisk, DestG, Link(DestFT)), DestG \o <<"_", "1">>, Dir)}

\* the destinations: /o/f.t, f.t under the working directory, f.t.z under
\* the root /o, /o/g, and /o/n/h.t in a directory that does not exist
Destinations ==
    {[path |-> DestFT, root |-> None],
     [path |-> <<"f", ".", "t">>, root |-> None],
     [path |-> <<"f", ".", "t", ".", "z">>, root |-> Some(Cwd)],
     [path |-> DestG, root |-> None],
     [path |-> <<"/", "o", "/", "n", "/", "h", ".", "t">>, root |-> None]}

\* contents, a link, both or neither
Payloads ==
    {[contents |-> Some(<<"x">>), link_to |-> None],
     [contents |-> None, link_to |-> Some(SourceQ)],
     [contents |-> Some(<<"x">>), link_to |-> Some(SourceA)],
     [contents |-> Some(<< >>), link_to |-> None]}

ConflictPolicies == {"fail", "skip", "overwrite", "append", "rename"}

WriteInputs ==
    {[path |-> dest.path, root |-> dest.root, contents |-> p.contents,
      link_to |-> p.link_to, conflicts |-> c] :
        dest \in Destinations, p \in Payloads, c \in ConflictPolicies}

MaxWrites == 2

(***************************************************************************)
(* Layout._find_entity, Layout.unique and Layout.count.  The name asked    *)
(* for is a key: NameKey(name) for an unqualified name, EntityId(domain,   *)
(* name) for 'domain.name'.  A lookup gives [err, msg, ref]: msg is the    *)
(* start of the message of the ValueError.                                 *)
(***************************************************************************)
\* _ent: the Entity of every entry of self.entities whose name is the one
\* asked for
NamedEntities(L, entity) ==
    SelectSeq([i \in 1..Len(L.entities) |-> L.entities[i].v],
              LAMBDA ref : entity[1] = "" /\ L.heap[ref].name = entity[2])

Found(ref) == [err |-> "None", msg |-> "", ref |-> ref]

NotFound(msg) == [err |-> "ValueError", msg |-> msg, ref |-> 0]

\* lines 582-591
FindByName(_ent) ==
    IF Len(_ent) > 1 THEN NotFound("Entity name matches")
    ELSE IF _ent # << >> THEN Found(_ent[1])
    ELSE NotFound("No entity found")

_find_entity(L, entity) ==
    IF DictHas(L.entities, entity) THEN Found(DictGet(L.entities, entity))
    ELSE FindByName(NamedEntities(L, entity))

\* set(self.files.values()) of an Entity
UniqueValues(ent) == {ent.files[p] : p \in DOMAIN ent.files}

\* Entity.count(files)
EntityCount(ent, files) ==
    IF files THEN Cardinality(DOMAIN ent.files) ELSE Cardinality(UniqueValues(ent))

\* Layout.unique(entity): [err, msg, list], listed being list(set(..))
unique(L, found, listed) ==
    [err |-> found.err, msg |-> found.msg, list |-> listed]

\* the set that Layout.unique(entity) lists
unique_set(L, found) ==
    IF found.err = "None" THEN UniqueValues(L.heap[found.ref]) ELSE {}

\* Layout.count(entity, files): [err, msg, count]
count(L, found, files) ==
    [err |-> found.err, msg |-> found.msg,
     count |-> IF found.err = "None" THEN EntityCount(L.heap[found.ref], files) ELSE 0]

\* the names asked for: subject, run, session, zz, b.subject, b.run, the
\* alias b.r, the bare alias r, n.subject, the alias n.sub and z.run
EntityNames ==
    {NameKey("subject"), NameKey("run"), NameKey("session"), NameKey("zz"),
     EntityId("b", "subject"), EntityId("b", "run"), EntityId("b", "r"),
     NameKey("r"), EntityId("n", "subject"), EntityId("n", "sub"),
     EntityId("z", "run")}

(***************************************************************************)
(* The state machine                                                       *)
(***************************************************************************)
VARIABLES
    layout,   \* the Layout object
    order,    \* the order in which this process iterates a set of domain names
    saved,    \* the index file written by save_index
    disk,     \* the files, links and directories that write_contents_to_file sees
    op,       \* the last operation called
    arg,      \* its argument
    err,      \* the exception it raised, "None" if it returned
    result,   \* what get() returned last
    walked,   \* the directories listed by the last index(), per domain
    calls     \* the number of index() and load_index() calls after construction

vars == <<layout, order, saved, disk, op, arg, err, result, walked, calls>>

\* the state that a constructor call which returned leaves
Constructed(r, o) ==
    /\ r.err = "None"
    /\ layout = r.L
    /\ order = o
    /\ saved = [exists |-> FALSE, data |-> << >>]
    /\ disk = StartDisk
    /\ op = "init"
    /\ arg = << >>
    /\ err = "None"
    /\ result = << >>
    /\ walked = r.walked
    /\ calls = 0

Init ==
    \E setup \in Setups, o \in Orders :
        Constructed(Construct(RootDir, setup.configs, setup.config_filename,
                              setup.include, setup.exclude, o), o)

Indexed(r) ==
    /\ layout' = r.L
    /\ err' = r.err
    /\ walked' = r.walked

Index ==
    /\ calls < MaxIndexCalls
    /\ Indexed(index(layout, order))
    /\ op' = "index"
    /\ arg' = << >>
    /\ calls' = calls + 1
    /\ result' = << >>
    /\ UNCHANGED <<order, saved, disk>>

Loaded(r) ==
    /\ layout' = r.L
    /\ err' = r.err

LoadDomain ==
    \E in \in LoadInputs :
        /\ Loaded(_load_domain(layout, in.src, in.root, FALSE))
        /\ op' = "_load_domain"
        /\ arg' = in
        /\ result' = << >>
        /\ UNCHANGED <<order, saved, disk, walked, calls>>

SaveIndex ==
    /\ saved' = [exists |-> TRUE, data |-> save_index(layout, order)]
    /\ op' = "save_index"
    /\ arg' = << >>
    /\ err' = "None"
    /\ result' = << >>
    /\ UNCHANGED <<layout, order, disk, walked, calls>>

LoadIndex ==
    /\ saved.exists
    /\ calls < MaxIndexCalls
    /\ \E reindex \in BOOLEAN :
        /\ Loaded(load_index(layout, saved.data, reindex))
        /\ op' = "load_index"
        /\ arg' = reindex
    /\ calls' = calls + 1
    /\ result' = << >>
    /\ UNCHANGED <<order, saved, disk, walked>>

Get ==
    \E q \in Queries :
        /\ result' = get(layout, q)
        /\ op' = "get"
        /\ arg' = q
        /\ err' = "None"
        /\ UNCHANGED <<layout, order, saved, disk, walked, calls>>

Next == Index \/ LoadDomain \/ SaveIndex \/ LoadIndex \/ Get

Spec == Init /\ [][Next]_vars

(***************************************************************************)
(* get() with every return type, on the layouts that the constructor       *)
(* leaves.                                                                 *)
(***************************************************************************)
\* a call that returned or raised: r is [err, list]
Finished(r) ==
    /\ result' = r.list
    /\ err' = r.err

GetReturnType ==
    \E q \in Projections :
        \E listed \in ListsOf(get_set(layout, q)) :
            /\ Finished(get_return_type(layout, q, listed))
            /\ op' = "get_return_type"
            /\ arg' = q
            /\ UNCHANGED <<layout, order, saved, disk, walked, calls>>

NextGet == Get \/ GetReturnType

SpecGet == Init /\ [][NextGet]_vars

(***************************************************************************)
(* The functions that do not touch a Layout are applied to inputs drawn    *)
(* by the initial state; layout is then the layout of the first setup.     *)
(***************************************************************************)
\* a layout that the call does not use
Aside ==
    /\ layout = Construct(RootDir, <<Base(CfgPlain)>>, LayoutJson, << >>, << >>,
                          <<"b", "n">>).L
    /\ order = <<"b", "n">>
    /\ saved = [exists |-> FALSE, data |-> << >>]
    /\ disk = StartDisk
    /\ walked = << >>
    /\ calls = 0

\* the call op(arg) returned r
Returned(name, r) ==
    /\ op = "init"
    /\ op' = name
    /\ result' = r
    /\ err' = "None"
    /\ UNCHANGED <<layout, order, saved, disk, arg, walked, calls>>

InitPatt ==
    /\ Aside
    /\ op = "init"
    /\ arg \in PattInputs
    /\ err = "None"
    /\ result = << >>

\* re.search(make_patt(x), str(value)) is not None, for an int x
MakePatt ==
    Returned("make_patt",
             SearchMakePatt(FInt(Repr(arg.x)), arg.regex_search, arg.value))

NextPatt == MakePatt

SpecPatt == InitPatt /\ [][NextPatt]_vars

(***************************************************************************)
(* get_nearest on the layouts that the constructor leaves.  result is the  *)
(* record [none, list, steps, done] of it.  The call changes nothing that  *)
(* a later call reads, so one call is made per behaviour.                  *)
(***************************************************************************)
GetNearest ==
    \E in \in NearestInputs :
        /\ op = "init"
        /\ result' = get_nearest(layout, in)
        /\ op' = "get_nearest"
        /\ arg' = in
        /\ err' = "None"
        /\ UNCHANGED <<layout, order, saved, disk, walked, calls>>

NextNearest == GetNearest

SpecNearest == Init /\ [][NextNearest]_vars

(***************************************************************************)
(* parse_file_entities on the layouts that the constructor leaves.          *)
(***************************************************************************)
Parsed(r) ==
    /\ layout' = r.L
    /\ err' = r.err
    /\ result' = r.entities

ParseFileEntities ==
    \E in \in ParseInputs :
        /\ Parsed(parse_file_entities(layout, in.filename, in.domains))
        /\ op' = "parse_file_entities"
        /\ arg' = in
        /\ UNCHANGED <<order, saved, disk, walked, calls>>

NextParse == ParseFileEntities

SpecParse == Init /\ [][NextParse]_vars

(***************************************************************************)
(* index() on a layout that was given an entity whose mapping function     *)
(* raises for one file.                                                    *)
(***************************************************************************)
AddEntity ==
    \E map_func \in MapFuncs :
        /\ op = "init"
        /\ DictHas(layout.domains, "b")
        /\ layout' = AddEntityTo(layout, "b", EntKind(map_func))
        /\ op' = "add_entity"
        /\ arg' = map_func
        /\ err' = "None"
        /\ result' = << >>
        /\ UNCHANGED <<order, saved, disk, walked, calls>>

NextMapped == AddEntity \/ Index

SpecMapped == Init /\ [][NextMapped]_vars

(***************************************************************************)
(* merge_layouts on lists of layouts; arg is the list as it was before the *)
(* call, layout the merged layout, result the list after the call.         *)
(***************************************************************************)
InitMerge ==
    /\ arg \in MergeInputs
    /\ layout = arg[1]
    /\ order = <<"b", "n">>
    /\ saved = [exists |-> FALSE, data |-> << >>]
    /\ disk = StartDisk
    /\ op = "init"
    /\ err = "None"
    /\ result = << >>
    /\ walked = << >>
    /\ calls = 0

Merge ==
    /\ op = "init"
    /\ layout' = merge_layouts(arg)
    /\ result' = InputsAfter(layout', arg)
    /\ op' = "merge_layouts"
    /\ UNCHANGED <<order, saved, disk, arg, err, walked, calls>>

NextMerge == Merge

SpecMerge == InitMerge /\ [][NextMerge]_vars

(***************************************************************************)
(* build_path on the rendered patterns                                     *)
(***************************************************************************)
InitBuild ==
    /\ Aside
    /\ op = "init"
    /\ arg \in BuildInputs
    /\ err = "None"
    /\ result = << >>

BuildPath == Returned("build_path", build_path(<<Render(arg.parts)>>, arg.entities))

NextBuild == BuildPath

SpecBuild == InitBuild /\ [][NextBuild]_vars

(***************************************************************************)
(* write_contents_to_file on a disk; result holds the names that the       *)
(* append loop tested                                                      *)
(***************************************************************************)
InitWrite ==
    /\ layout = Construct(RootDir, <<Base(CfgPlain)>>, LayoutJson, << >>, << >>,
                          <<"b", "n">>).L
    /\ order = <<"b", "n">>
    /\ saved = [exists |-> FALSE, data |-> << >>]
    /\ disk \in StartDisks
    /\ walked = << >>
    /\ calls = 0
    /\ op = "init"
    /\ arg = << >>
    /\ err = "None"
    /\ result = << >>

Written(c) ==
    /\ disk' = c.disk
    /\ err' = IF c.stop = "return" THEN "None" ELSE c.stop
    /\ result' = c.probed

WriteContentsToFile ==
    /\ calls < MaxWrites
    /\ \E in \in WriteInputs :
        /\ Written(write_contents_to_file(disk, in))
        /\ arg' = in
    /\ op' = "write_contents_to_file"
    /\ calls' = calls + 1
    /\ UNCHANGED <<layout, order, saved, walked>>

NextWrite == WriteContentsToFile

SpecWrite == InitWrite /\ [][NextWrite]_vars

(***************************************************************************)
(* get(return_type='dir') on the index, also after parse_file_entities has *)
(* stored files of further directories in it                               *)
(***************************************************************************)
ParseDirFile ==
    /\ op \in {"init", "parse_file_entities"}
    /\ \E in \in DirParseInputs :
        /\ Parsed(parse_file_entities(layout, in.filename, in.domains))
        /\ arg' = in
    /\ op' = "parse_file_entities"
    /\ UNCHANGED <<order, saved, disk, walked, calls>>

GetDirectories ==
    /\ op # "get_return_type"
    /\ \E q \in DirProjections :
        \E listed \in ListsOf(get_set(layout, q)) :
            /\ Finished(get_return_type(layout, q, listed))
            /\ arg' = q
    /\ op' = "get_return_type"
    /\ UNCHANGED <<layout, order, saved, disk, walked, calls>>

NextDir == ParseDirFile \/ GetDirectories

SpecDir == Init /\ [][NextDir]_vars

(***************************************************************************)
(* Layout.unique and Layout.count on a constructed layout                  *)
(***************************************************************************)
LookedUp(r) ==
    /\ result' = r
    /\ err' = r.err

Unique ==
    /\ op = "init"
    /\ \E entity \in EntityNames :
        \E listed \in ListsOf(unique_set(layout, _find_entity(layout, entity))) :
            /\ LookedUp(unique(layout, _find_entity(layout, entity), listed))
            /\ arg' = [entity |-> entity]
    /\ op' = "unique"
    /\ UNCHANGED <<layout, order, saved, disk, walked, calls>>

Count ==
    /\ op = "init"
    /\ \E entity \in EntityNames, files \in BOOLEAN :
        /\ LookedUp(count(layout, _find_entity(layout, entity), files))
        /\ arg' = [entity |-> entity, files |-> files]
    /\ op' = "count"
    /\ UNCHANGED <<layout, order, saved, disk, walked, calls>>

NextFind == Unique \/ Count

SpecFind == Init /\ [][NextFind]_vars

(***************************************************************************)
(* _load_domain with the configs of further domains, one after another     *)
(***************************************************************************)
LoadAliased ==
    /\ op \in {"init", "_load_domain"}
    /\ \E config \in AliasConfigs :
        /\ Loaded(_load_domain(layout, Dict(config), <<RootDir>>, FALSE))
        /\ arg' = config
    /\ op' = "_load_domain"
    /\ result' = << >>
    /\ UNCHANGED <<order, saved, disk, walked, calls>>

NextAlias == LoadAliased

SpecAlias == Init /\ [][NextAlias]_vars

(***************************************************************************)
(* Properties.  The states after the constructor or a later index() call   *)
(* are those with op in {"init", "index"}; err tells whether the call      *)
(* returned.                                                               *)
(***************************************************************************)
\* p lies below the directory d
Under(p, d) == StartsWithAt(p, d \o <<SEP>>, 1)

AfterIndex == op \in {"init", "index"}

IndexCompleted == AfterIndex /\ err = "None"

\* the mandatory entities of the domain named d
MandatoryRefs(L, d) ==
    {ref \in DictValues(DictGet(L.domains, d).entities) : L.heap[ref].mandatory}

\* the entities that tagged f
TaggedBy(f) == {f.tags[key].entity : key \in DOMAIN f.tags}

\* C1: after index() completes, every File kept in Layout.files has at least
\* one tag and, for at least one domain that tagged it, carries a value for
\* every mandatory entity of that domain; other files are not kept.
C1_RetainedFilesSatisfyMandatory ==
    IndexCompleted =>
        \A i \in 1..Len(layout.files) :
            /\ DOMAIN layout.files[i].v.tags # {}
            /\ \E d \in FileDomains(layout, layout.files[i].v) :
                   MandatoryRefs(layout, d) \subseteq TaggedBy(layout.files[i].v)

\* the two layouts hold the same files, with the same tags, and every Entity
\* has the same path -> value map
SameIndex(L1, L2) ==
    /\ DictKeys(L1.files) = DictKeys(L2.files)
    /\ \A p \in DictKeys(L1.files) \cap DictKeys(L2.files) :
           DictGet(L1.files, p).tags = DictGet(L2.files, p).tags
    /\ Len(L1.heap) = Len(L2.heap)
    /\ \A r \in 1..Len(L1.heap) : L1.heap[r].files = L2.heap[r].files

\* C2: index() called again right after an index() that completed, on the
\* unchanged tree, completes without error and gives the same file paths, the
\* same tags per file and the same path -> value map per Entity.
C2_IndexIdempotent ==
    [][(IndexCompleted /\ op' = "index")
           => (err' = "None" /\ SameIndex(layout, layout'))]_vars

\* C3: load_index(reindex=False) right after save_index gives the same file
\* paths and, for every file, the same File.entities as before the save, and
\* every get() query returns the same files as before.
C3_SaveLoadRoundTrip ==
    [][(op = "save_index" /\ op' = "load_index" /\ arg' = FALSE)
           => /\ err' = "None"
              /\ DictKeys(layout'.files) = DictKeys(layout.files)
              /\ \A p \in DictKeys(layout.files) :
                     FileEntities(DictGet(layout'.files, p))
                         = FileEntities(DictGet(layout.files, p))
              /\ \A q \in Queries : get(layout', q) = get(layout, q)]_vars

\* the directories below a root of the domain named dom that fail the
\* include/exclude check made for that domain
FailedDirs(L, dom) ==
    {d \in Dirs : /\ \E i \in 1..Len(DictGet(L.domains, dom).root) :
                        Under(d, DictGet(L.domains, dom).root[i])
                  /\ ~_check_inclusions(L, d, dom)}

\* C4: with a single domain, after index() no File lies under a directory
\* that the exclude patterns match or that failed the include check.
C4_NoFileUnderFailedDirectory ==
    (IndexCompleted /\ Len(layout.domains) = 1) =>
        \A d \in FailedDirs(layout, layout.domains[1].k) :
            \A i \in 1..Len(layout.files) : ~Under(layout.files[i].k, d)

\* C5: during index(), a directory that fails the include/exclude check is
\* never listed by the walk, and neither is any directory below it.
C5_PrunedSubtreeNeverListed ==
    AfterIndex =>
        \A i \in 1..Len(walked) :
            \A d \in FailedDirs(layout, walked[i].dom) :
                walked[i].dir # d /\ ~Under(walked[i].dir, d)

\* the file that _load_domain reads for a config given as the string path
ConfigFileOf(L, path) == IF isdir(path) THEN join(path, L.config_filename) ELSE path

\* the call's config can be read: it is a dict, or the file exists and parses
Readable(L, src) ==
    src.path = << >> \/ (exists(ConfigFileOf(L, src.path)) /\ IsJson(ConfigFileOf(L, src.path)))

ConfigRead(L, src) ==
    IF src.path = << >> THEN src.dict ELSE ReadJson(ConfigFileOf(L, src.path))

\* C6: a _load_domain call for a config whose name is that of a registered
\* domain raises ValueError and leaves the domains, the entities (ids and
\* aliases), the Entity objects and the mandatory set as they were.
C6_DuplicateDomainRejected ==
    [][(/\ op' = "_load_domain"
        /\ Readable(layout, arg'.src)
        /\ DictHas(layout.domains, ConfigRead(layout, arg'.src).name))
           => /\ err' = "ValueError"
              /\ layout'.domains = layout.domains
              /\ layout'.entities = layout.entities
              /\ layout'.heap = layout.heap
              /\ layout'.mandatory = layout.mandatory]_vars

\* C6: a state right after the nested config was given a second time, as a
\* dict with an existing root, and was rejected.
C6_DuplicateRejectedWitness ==
    /\ op = "_load_domain"
    /\ arg = [src |-> Dict(CfgNested), root |-> <<DirU>>]
    /\ err = "ValueError"
    /\ DictHas(layout.domains, "n")
    /\ Len(DictGet(layout.domains, "n").entities) = 1

\* the domains for which index() takes path as a candidate: it is listed by
\* the walk of one of the domain's roots, is not a config file, and passes
\* the include/exclude check made for the domain
WalkedFor(L, path) ==
    {d \in DictKeys(L.domains) :
        /\ path \in TreeFiles
        /\ basename(path) # L.config_filename
        /\ \E i \in 1..Len(DictGet(L.domains, d).root) :
               \/ dirname(path) = DictGet(L.domains, d).root[i]
               \/ Under(dirname(path), DictGet(L.domains, d).root[i])
        /\ _check_inclusions(L, path, d)}

CandidateDomains(L, path) ==
    UNION {Elems(DictGet(L.domains, d).cfgdomains) \cup {d} : d \in WalkedFor(L, path)}

\* the (name, entity, value) triples of the entities of the domains ds that
\* are tried on path and match it: an entity is tried unless a mandatory
\* entity before it in its domain did not match
Matched(L, path, ds) ==
    UNION {Elems(MatchVals(L, DictGet(L.domains, d), path)) : d \in ds}

ConfigDirs(L) == {d \in Dirs : ListedIn(d, L.config_filename)}

\* the domains registered with d as their only root
DomainsAt(L, d) == {n \in DictKeys(L.domains) : DictGet(L.domains, n).root = <<d>>}

\* C8: after an index() call, a config file found in directory d has
\* registered exactly one additional domain, rooted at d, and that domain is
\* applied to every indexed file in d or below and to no file outside d.
C8_NestedDomainScopedToDirectory ==
    AfterIndex =>
        \A d \in ConfigDirs(layout) :
            /\ err = "None"
            /\ Cardinality(DomainsAt(layout, d)) = 1
            /\ \A n \in DomainsAt(layout, d) :
                   /\ n = ReadJson(join(d, layout.config_filename)).name
                   /\ \A i \in 1..Len(layout.files) :
                          Under(layout.files[i].k, d)
                              <=> layout.files[i].k \in Elems(DictGet(layout.domains, n).files)

\* regex_search as get() resolves it
RegexSearchOf(L, q) ==
    IF q.regex_search = "None" THEN L.regex_search ELSE q.regex_search = "True"

\* f passes the extension and the domain allow-lists of q
Allowed(L, f, q) ==
    /\ ~q.extensions.none => \E e \in Elems(q.extensions.list) : EndsWith(f.path, e)
    /\ ~q.domains.none => \E d \in Elems(q.domains.list) : d \in FileDomains(L, f)

\* the paths of the indexed files that pass the allow-lists and, for every
\* filter key: have no tag for it when its value is None, otherwise have a
\* tag whose value matches at least one element of the filter value
Expected(L, q) ==
    {L.files[i].k : i \in
        {i \in 1..Len(L.files) :
            /\ Allowed(L, L.files[i].v, q)
            /\ \A flt \in Elems(q.filters) :
                   IF flt.v.none THEN flt.k \notin DOMAIN L.files[i].v.tags
                   ELSE /\ flt.k \in DOMAIN L.files[i].v.tags
                        /\ \E x \in Elems(flt.v.alts) :
                               SearchMakePatt(x, RegexSearchOf(L, q),
                                              L.files[i].v.tags[flt.k].value.s)}}

C10_MissingKeyExcludesUnlessNone ==
    op = "get" =>
        \A i \in 1..Len(layout.files) :
            \A flt \in Elems(arg.filters) :
                (flt.k \in DOMAIN layout.files[i].v.tags) = flt.v.none
                    => layout.files[i].k \notin Elems(result)

\* C10: a state after a get() with a filter value other than None for a key
\* that some indexed file has no tag for, while other files were returned.
C10_MissingKeyWitness ==
    /\ op = "get"
    /\ result # << >>
    /\ \E i \in 1..Len(layout.files) :
           \E flt \in Elems(arg.filters) :
               /\ ~flt.v.none
               /\ flt.k \notin DOMAIN layout.files[i].v.tags
               /\ layout.files[i].k \notin Elems(result)

\* C10 (as stated): a file that has no tag for some filter key is excluded
\* from the result of get(), whatever the value given for that key.
C10_MissingKeyAlwaysExcludes ==
    op = "get" =>
        \A i \in 1..Len(layout.files) :
            \A flt \in Elems(arg.filters) :
                flt.k \notin DOMAIN layout.files[i].v.tags
                    => layout.files[i].k \notin Elems(result)
\* the string of k zeros
Zeros(k) == [i \in 1..k |-> "0"]

NaturallySorted(l) ==
    /\ \A i, j \in 1..Len(l) : i < j => ~KeyLess(l[j], l[i])
    /\ \A i, j \in 1..Len(l) : l[i] = l[j] => i = j

\* the sort keys of what a get call returned: the filename of a named tuple
SortKeys(q, l) ==
    IF q.return_type = "tuple" THEN [i \in 1..Len(l) |-> l[i].filename] ELSE l

\* the domains named in the call are loaded, and a 'dir' target has a
\* directory template
ValidProjection(L, q) ==
    /\ \A i \in 1..Len(DomainList(L, q.domains)) :
           DictHas(L.domains, DomainList(L, q.domains)[i])
    /\ q.return_type = "dir" =>
           GetDir(L, get_domain_entities(L, DomainList(L, q.domains)),
                  q.target, << >>).err = "None"

\* C12: every get call with return type 'file', 'tuple', 'id' or 'dir'
\* returns a list in natural order (digit runs compared as ints) that holds
\* each value once.
C12_ProjectionsNaturallySorted ==
    /\ op = "get" => NaturallySorted(result)
    /\ (op = "get_return_type" /\ ValidProjection(layout, arg)) =>
           /\ err = "None"
           /\ NaturallySorted(SortKeys(arg, result))

\* the entity values that get_nearest parsed from the starting path
ParsedFrom(L, in) ==
    PopIgnored(PathEntitiesFrom(L, in.path, << >>, 1), in.strict,
               in.ignore_strict_entities)

\* the file at path p carries, for every entity name that it shares with
\* the parsed values, the parsed value
AgreesWith(L, p, parsed) ==
    \A k \in DOMAIN parsed :
        NameKey(k) \in DOMAIN DictGet(L.files, p).tags =>
            /\ ~DictGet(L.files, p).tags[NameKey(k)].value.int
            /\ DictGet(L.files, p).tags[NameKey(k)].value.s = parsed[k]

\* C13: in strict mode every file that get_nearest returns carries, for each
\* entity name it shares with the values parsed from the starting path
\* (the names in ignore_strict_entities left out), the parsed value.
C13_StrictMatchesAgree ==
    (op = "get_nearest" /\ arg.strict) =>
        \A i \in 1..Len(result.list) :
            AgreesWith(layout, result.list[i], ParsedFrom(layout, arg))

\* a strict call that returned a file sharing an entity with the starting
\* path, from a layout that also holds a file that disagrees with the path
C13_StrictWitness ==
    /\ op = "get_nearest"
    /\ arg.strict
    /\ result.list # << >>
    /\ \E k \in DOMAIN ParsedFrom(layout, arg) :
           NameKey(k) \in DOMAIN DictGet(layout.files, result.list[1]).tags
    /\ \E i \in 1..Len(layout.files) :
           ~AgreesWith(layout, layout.files[i].k, ParsedFrom(layout, arg))

\* the locals of the get_nearest call that was made
CallOf(L, in) == NearestCall(L, in)

\* the starting path and the directories above it, nearest first
RECURSIVE Ancestors(_)
Ancestors(p) == IF dirname(p) = p THEN <<p>> ELSE <<p>> \o Ancestors(dirname(p))

\* the positions in Ancestors of the directories that hold an eligible
\* candidate
EligibleDirs(X, path) ==
    {i \in 1..Len(Ancestors(path)) :
        NumEnts(X, Folder(X, Ancestors(path)[i])) # << >>}

\* C14: with all_ false, get_nearest returns the match of the nearest
\* directory, walking upward from the starting path, that holds an eligible
\* candidate; a nearer directory whose candidates are all rejected does not
\* end the walk.
C14_NearestEligibleDirectoryWins ==
    (op = "get_nearest" /\ ~arg.all_
        /\ EligibleDirs(CallOf(layout, arg), arg.path) # {}) =>
        result.list =
            <<FirstSorted(CallOf(layout, arg),
                          NumEnts(CallOf(layout, arg),
                                  Folder(CallOf(layout, arg),
                                         Ancestors(arg.path)[
                                             Min(EligibleDirs(CallOf(layout, arg),
                                                              arg.path))])))>>

C16_ParseLeavesIndexAlone ==
    [][op' = "parse_file_entities" =>
           /\ layout'.files = layout.files
           /\ layout'.heap = layout.heap
           /\ layout'.domains = layout.domains]_vars

\* the mapping function of the layout raises for the path
RaisesFor(L, path) ==
    \E i \in 1..Len(L.heap) : MapFuncRaises(L.heap[i].map_func, path)

\* C17: an index() call over a tree with one file for which a mapping
\* function raises completes, and holds every other file that the index
\* held before the call, with the tags it had.
C17_MatchingFailureAbsorbed ==
    [][(/\ op' = "index"
        /\ \E i \in 1..Len(layout.files) : RaisesFor(layout, layout.files[i].k)
        /\ err' # "ValueError")
           => /\ err' = "None"
              /\ \A i \in 1..Len(layout.files) :
                     ~RaisesFor(layout, layout.files[i].k) =>
                         /\ DictHas(layout'.files, layout.files[i].k)
                         /\ DictGet(layout'.files, layout.files[i].k).tags
                                = layout.files[i].v.tags]_vars

\* the inputs that hold the path, the domain name, the entity key
WithFile(ls, path) == {n \in 1..Len(ls) : DictHas(ls[n].files, path)}

WithDomain(ls, name) == {n \in 1..Len(ls) : DictHas(ls[n].domains, name)}

WithEntity(ls, k) == {n \in 1..Len(ls) : DictHas(ls[n].entities, k)}

\* the positions in L.entities of the keys that are entity ids, not aliases
EntityIds(L) ==
    {i \in 1..Len(L.entities) : L.heap[L.entities[i].v].id = L.entities[i].k}

\* the path -> value map of the Entity that L holds under the key k
EntityFiles(L, k) == L.heap[DictGet(L.entities, k)].files

\* the inputs whose Entity k has a value for the path
WithValue(ls, k, path) ==
    {n \in WithEntity(ls, k) : path \in DOMAIN EntityFiles(ls[n], k)}

\* the tags of a File with each Entity written as its id
TagIds(L, f) ==
    [key \in DOMAIN f.tags |->
        [value |-> f.tags[key].value, id |-> L.heap[f.tags[key].entity].id]]

\* a Domain with each Entity written as its id
DomainIds(L, d) ==
    [name |-> d.name, files |-> d.files, root |-> d.root,
     entities |-> [i \in 1..Len(d.entities) |->
                      [k |-> d.entities[i].k, id |-> L.heap[d.entities[i].v].id]]]

RECURSIVE SumFiles(_, _)
SumFiles(ls, i) == IF i > Len(ls) THEN 0 ELSE Len(ls[i].files) + SumFiles(ls, i + 1)

\* C18: merge_layouts gives later layouts precedence.  A path of several
\* inputs has the File of the last input that holds it, a domain name the
\* Domain of the last input that holds it, and an entity id of several
\* inputs the union of the inputs' path -> value maps, the last input with a
\* value for a path giving it; with disjoint paths the merged layout has as
\* many files as the inputs together.
C18_LaterLayoutsWin ==
    op = "merge_layouts" =>
        /\ \A n \in 1..Len(arg) : \A i \in 1..Len(arg[n].files) :
               /\ DictHas(layout.files, arg[n].files[i].k)
               /\ TagIds(layout, DictGet(layout.files, arg[n].files[i].k))
                      = TagIds(arg[Max(WithFile(arg, arg[n].files[i].k))],
                               DictGet(arg[Max(WithFile(arg, arg[n].files[i].k))].files,
                                       arg[n].files[i].k))
        /\ \A n \in 1..Len(arg) : \A i \in 1..Len(arg[n].domains) :
               /\ DictHas(layout.domains, arg[n].domains[i].k)
               /\ DomainIds(layout, DictGet(layout.domains, arg[n].domains[i].k))
                      = DomainIds(arg[Max(WithDomain(arg, arg[n].domains[i].k))],
                                  DictGet(arg[Max(WithDomain(arg, arg[n].domains[i].k))].domains,
                                          arg[n].domains[i].k))
        /\ \A n \in 1..Len(arg) : \A i \in EntityIds(arg[n]) :
               /\ DictHas(layout.entities, arg[n].entities[i].k)
               /\ DOMAIN EntityFiles(layout, arg[n].entities[i].k)
                      = UNION {DOMAIN EntityFiles(arg[m], arg[n].entities[i].k) :
                                  m \in WithEntity(arg, arg[n].entities[i].k)}
               /\ \A path \in DOMAIN EntityFiles(layout, arg[n].entities[i].k) :
                      EntityFiles(layout, arg[n].entities[i].k)[path]
                          = EntityFiles(arg[Max(WithValue(arg, arg[n].entities[i].k, path))],
                                        arg[n].entities[i].k)[path]
        /\ (\A n, m \in 1..Len(arg) :
                n # m => DictKeys(arg[n].files) \cap DictKeys(arg[m].files) = {})
               => Len(layout.files) = SumFiles(arg, 1)

\* a merge of three layouts in which an entity id of two inputs has
\* different values for one path, and a merge of inputs with disjoint paths
C18_ConflictWitness ==
    /\ op = "merge_layouts"
    /\ Len(arg) = 3
    /\ \E k \in DictKeys(arg[1].entities) \cap DictKeys(arg[3].entities) :
           \E path \in (DOMAIN EntityFiles(arg[1], k)) \cap (DOMAIN EntityFiles(arg[3], k)) :
               /\ EntityFiles(arg[1], k)[path] # EntityFiles(arg[3], k)[path]
               /\ EntityFiles(layout, k)[path] = EntityFiles(arg[3], k)[path]
    /\ DictKeys(arg[2].files) \cap DictKeys(arg[3].files) = {}
    /\ arg[2].files # << >>

(***************************************************************************)
(* C19.  build_path resolves each optional segment on its own: a segment   *)
(* with a placeholder that the entity map lacks is dropped, a segment      *)
(* whose placeholders are all present is replaced by its expansion without *)
(* the brackets, and the required placeholders are then resolved over what *)
(* remains; a missing required placeholder, or an empty result, gives      *)
(* None.  "s{a}/[e{b}/]r{c}" with a = "1", c = "02" yields "s1/r02".        *)
(***************************************************************************)
\* the placeholders of a list of parts are all in the entity map
AllPresent(parts, entities) ==
    \A i \in 1..Len(parts) : parts[i].kind = "ent" => parts[i].name \in DOMAIN entities

RECURSIVE Expand(_, _)
ExpandPart(p, entities) ==
    IF p.kind = "lit" THEN <<p.c>>
    ELSE IF p.kind = "ent"
         THEN (IF p.name \in DOMAIN entities THEN entities[p.name] ELSE << >>)
    ELSE IF AllPresent(p.parts, entities) THEN Expand(p.parts, entities)
    ELSE << >>

Expand(parts, entities) ==
    IF parts = << >> THEN << >>
    ELSE ExpandPart(parts[1], entities) \o Expand(SubSeq(parts, 2, Len(parts)), entities)

Resolved(parts, entities) ==
    IF AllPresent(parts, entities) /\ Expand(parts, entities) # << >>
    THEN [none |-> FALSE, s |-> Expand(parts, entities)]
    ELSE [none |-> TRUE, s |-> << >>]

FirstDot(p) ==
    Min({Len(p) + 1} \cup
        {j \in 1..Len(p) : p[j] = "." /\ \A k \in j..Len(p) : p[k] # SEP})

\* stem_i.ext
Suffixed(p, i) ==
    SubSeq(p, 1, FirstDot(p) - 1) \o <<"_">> \o Repr(i) \o SubSeq(p, FirstDot(p), Len(p))

\* the smallest i >= 1 for which nothing exists at stem_i.ext
FirstFree(d, p) ==
    Min({i \in 1..(Cardinality(DOMAIN d) + 1) : Suffixed(p, i) \notin DOMAIN d})

\* what the call is given to write
Payload(in) ==
    IF Truthy(in.link_to) THEN Link(in.link_to.s) ELSE File(in.contents.s)

AppendedTo(d, in, p, k) ==
    /\ result' = [i \in 1..k |-> Suffixed(p, i)]
    /\ \A q \in DOMAIN d : q \in DOMAIN disk' /\ disk'[q] = d[q]
    /\ IF Truthy(in.link_to) \/ Truthy(in.contents)
       THEN /\ err' = "None"
            /\ DOMAIN disk' = DOMAIN d \cup {Suffixed(p, k)}
            /\ disk'[Suffixed(p, k)] = Payload(in)
       ELSE /\ err' = "ValueError"
            /\ disk' = d

AppendCall ==
    /\ calls' = calls + 1
    /\ op' = "write_contents_to_file"
    /\ arg'.conflicts = "append"
    /\ Rooted(arg'.path, arg'.root) \in DOMAIN disk

WriteCall ==
    /\ calls' = calls + 1
    /\ op' = "write_contents_to_file"
    /\ Rooted(arg'.path, arg'.root) \in DOMAIN disk

\* the entry at p is what it was before the step
Kept(p) == p \in DOMAIN disk' /\ disk'[p] = disk[p]

\* the payload of the call is at p after the step
Replaced(in, p) ==
    /\ in.conflicts = "overwrite"
    /\ Truthy(in.link_to) \/ Truthy(in.contents)
    /\ p \in DOMAIN disk'
    /\ disk'[p] = Payload(in)

C21_DestinationKeptOrReplaced ==
    [][WriteCall =>
        \/ Kept(Rooted(arg'.path, arg'.root))
        \/ Replaced(arg', Rooted(arg'.path, arg'.root))]_vars

(***************************************************************************)
(* C22.  A get call with return type 'dir' whose target has a directory    *)
(* template returns, in natural order and each once, exactly the           *)
(* directories of the files of Layout.files whose last directory component *)
(* holds the pattern of the template; the entity and extension filters of  *)
(* the call play no part in it.                                            *)
(***************************************************************************)
\* the pattern pre(\d+) occurs in the last component of the directory d
TemplateMatches(pre, d) ==
    \E digit \in Digits : Contains(basename(d), pre \o <<digit>>)

\* the directories of all the files of the layout
FileDirs(L) == {dirname(L.files[i].v.path) : i \in 1..Len(L.files)}

DirCall ==
    /\ op = "get_return_type"
    /\ arg.return_type = "dir"
    /\ ValidProjection(layout, arg)

C22_DirOverWholeIndex ==
    DirCall =>
        /\ err = "None"
        /\ NaturallySorted(result)
        /\ {result[i] : i \in 1..Len(result)} =
               {d \in FileDirs(layout) :
                   TemplateMatches(
                       TemplatePre(layout,
                                   get_domain_entities(layout,
                                                       DomainList(layout, arg.domains)),
                                   arg.target),
                       d)}

\* no file has the extension x, and the directories come back in the order
\* /r/s1, /r/s2, /r/s10
C22_FilteredOutWitness ==
    /\ DirCall
    /\ ~arg.extensions.none
    /\ arg.extensions.list = << <<"x">> >>
    /\ result = <<DirS1, <<"/", "r", "/", "s", "2">>, <<"/", "r", "/", "s", "1", "0">> >>

(***************************************************************************)
(* C23.  In strict mode get_nearest takes the value parsed from the        *)
(* starting path and the stored value of a candidate as agreeing when they *)
(* denote the same value, an int-typed entity included: when the directory *)
(* of the starting path holds a candidate that shares an entity with the   *)
(* path and denotes the same value for every shared entity, the call       *)
(* returns a file of that directory and not None.                          *)
(***************************************************************************)
\* the matched group denotes the stored value: for an int, the same number
DenotesSame(group, value) ==
    IF value.int THEN value.s = StripZeros(group) ELSE value.s = group

\* the candidate at p shares an entity with the parsed values and denotes
\* the parsed value for each entity that it shares
SameEntities(X, p) ==
    /\ SharedKeys(X, DictGet(X.L.files, p)) # {}
    /\ \A k \in SharedKeys(X, DictGet(X.L.files, p)) :
           DenotesSame(X.entities[k], DictGet(X.L.files, p).tags[NameKey(k)].value)

\* the candidates in the directory of the starting path
Beside(X, path) == Folder(X, dirname(path))

C23_IntValuesAgree ==
    (/\ op = "get_nearest"
     /\ arg.strict
     /\ dirname(arg.path) # arg.path
     /\ \E i \in 1..Len(Beside(CallOf(layout, arg), arg.path)) :
            SameEntities(CallOf(layout, arg), Beside(CallOf(layout, arg), arg.path)[i]))
        => /\ ~result.none
           /\ result.list # << >>
           /\ dirname(result.list[1]) = dirname(arg.path)

(***************************************************************************)
(* C24.  get_nearest returns at most one file per directory; the file of a *)
(* directory is, among the eligible candidates directly in it, one that    *)
(* agrees with the starting path on the most entities; with all_ true the  *)
(* list holds one such file for every directory on the way up that has an  *)
(* eligible candidate, the nearest directory first.                        *)
(***************************************************************************)
\* the entities on which the candidate at p denotes the parsed value
Agreement(X, p) ==
    Cardinality({k \in SharedKeys(X, DictGet(X.L.files, p)) :
                    DenotesSame(X.entities[k],
                                DictGet(X.L.files, p).tags[NameKey(k)].value)})

\* in strict mode a candidate is eligible when it agrees on every entity
\* that it shares with the starting path
Eligible(X, p) ==
    X.strict => Agreement(X, p) = Cardinality(SharedKeys(X, DictGet(X.L.files, p)))

EligibleIn(X, d) == SelectSeq(Folder(X, d), LAMBDA p : Eligible(X, p))

\* p is a best eligible candidate of its directory
Winner(X, p) ==
    /\ \E i \in 1..Len(EligibleIn(X, dirname(p))) : EligibleIn(X, dirname(p))[i] = p
    /\ \A i \in 1..Len(EligibleIn(X, dirname(p))) :
           Agreement(X, EligibleIn(X, dirname(p))[i]) <= Agreement(X, p)

\* the directories on the way up that hold an eligible candidate
Levels(X, path) == SelectSeq(Ancestors(path), LAMBDA d : EligibleIn(X, d) # << >>)

OnePerLevel(X, in, list) ==
    /\ \A i, j \in 1..Len(list) : dirname(list[i]) = dirname(list[j]) => i = j
    /\ \A i \in 1..Len(list) : Winner(X, list[i])
    /\ in.all_ => [i \in 1..Len(list) |-> dirname(list[i])] = Levels(X, in.path)

C24_OneWinnerPerLevel ==
    op = "get_nearest" => OnePerLevel(CallOf(layout, arg), arg, result.list)

(***************************************************************************)
(* C25.  unique(name) and count(name) with an unqualified name give the    *)
(* values of the one Entity of that name whenever exactly one Entity has   *)
(* it, aliases or not, and raise the ambiguity error exactly when entities *)
(* of two or more domains have the name; a key of Layout.entities (an id   *)
(* or an alias) gives the values of the Entity stored under it.            *)
(***************************************************************************)
\* the Entity objects of the layout that have the name
Bearers(L, name) ==
    {ref \in 1..Len(L.heap) :
        /\ L.heap[ref].name = name
        /\ \E i \in 1..Len(L.entities) : L.entities[i].v = ref}

\* what the call returned is taken from the Entity ent
ResultOf(ent) ==
    /\ err = "None"
    /\ op = "unique" => {result.list[i] : i \in 1..Len(result.list)} = UniqueValues(ent)
    /\ op = "count" => result.count = EntityCount(ent, arg.files)

Ambiguity == err = "ValueError" /\ result.msg = "Entity name matches"

ByName(L, name) ==
    /\ Cardinality(Bearers(L, name)) = 1 =>
           ResultOf(L.heap[CHOOSE ref \in Bearers(L, name) : TRUE])
    /\ Ambiguity <=> Cardinality({L.heap[ref].domain : ref \in Bearers(L, name)}) >= 2

C25_UnqualifiedNameResolves ==
    op \in {"unique", "count"} =>
        IF DictHas(layout.entities, arg.entity)
        THEN ResultOf(layout.heap[DictGet(layout.entities, arg.entity)])
        ELSE arg.entity[1] = "" => ByName(layout, arg.entity[2])

(***************************************************************************)
(* C26.  After any sequence of domain loads every Entity that was          *)
(* registered is the entry of Layout.entities under its qualified id, and  *)
(* each of its alias keys leads to the same Entity as its id: no alias has *)
(* taken the place of another entity's id or alias.                        *)
(***************************************************************************)
OwnsItsKeys(L, ref) ==
    /\ DictHas(L.entities, L.heap[ref].id)
    /\ DictGet(L.entities, L.heap[ref].id) = ref
    /\ \A i \in 1..Len(L.heap[ref].aliases) :
           /\ DictHas(L.entities, L.heap[ref].aliases[i])
           /\ DictGet(L.entities, L.heap[ref].aliases[i]) = ref

C26_EntityKeysCollisionFree ==
    \A ref \in 1..Len(layout.heap) : OwnsItsKeys(layout, ref)

(***************************************************************************)
(* index() and the Domain.files lists                                      *)
(***************************************************************************)
\* the candidate index that the registered domains give on the tree:
\* path -> the names of the domains the path is indexed under
Candidates(L) ==
    IndexDomains([L |-> L, files_to_index |-> << >>, extra_configs |-> << >>,
                  walked |-> << >>, err |-> "None"], 1).files_to_index

\* the paths held in Layout.files that were indexed under the domain d
IndexedUnder(L, fti, d) ==
    {p \in DictKeys(L.files) : DictHas(fti, p) /\ d \in DictGet(fti, p)}

\* the list holds no element twice
NoDuplicates(l) == \A i, j \in 1..Len(l) : l[i] = l[j] => i = j

\* the files list of the domain d is, without duplicates, IndexedUnder
TracksIndexed(L, fti, d) ==
    /\ NoDuplicates(DictGet(L.domains, d).files)
    /\ Elems(DictGet(L.domains, d).files) = IndexedUnder(L, fti, d)

\* C27: after every index() call that completed (the one of the constructor
\* or a later one), the files list of each Domain holds, without duplicates,
\* exactly the files of Layout.files that were indexed under that domain.
C27_DomainFilesTrackIndex ==
    IndexCompleted =>
        \A d \in DictKeys(layout.domains) : TracksIndexed(layout, Candidates(layout), d)

(***************************************************************************)
(* merge_layouts and its inputs                                            *)
(***************************************************************************)
\* the path -> value map of every Entity of the layout
EntityMapsOf(L) == [ref \in 1..Len(L.heap) |-> L.heap[ref].files]

\* the two layouts have the same files, domains and entity path -> value maps
SameContents(L1, L2) ==
    /\ L1.files = L2.files
    /\ L1.domains = L2.domains
    /\ L1.entities = L2.entities
    /\ EntityMapsOf(L1) = EntityMapsOf(L2)

\* C28: merge_layouts leaves every input layout as it was: the files, the
\* domains and the path -> value map of every Entity of each layout of the
\* list are the same after the call as before it.
C28_MergeLeavesInputsAlone ==
    op = "merge_layouts" =>
        \A i \in 1..Len(arg) : SameContents(result[i], arg[i])

(***************************************************************************)
(* The Entity <-> File relation                                            *)
(***************************************************************************)
\* the (path, value) pairs that the Entity at ref records in its files map
Recorded(L, ref) ==
    {<<p, L.heap[ref].files[p]>> : p \in DOMAIN L.heap[ref].files}

\* the values of the tags of the File f whose entity is the one at ref
TagValuesOf(f, ref) ==
    {f.tags[key].value : key \in {k \in DOMAIN f.tags : f.tags[k].entity = ref}}

\* the (path, value) pairs such that Layout.files holds the path and the
\* File at the path carries the Tag (Entity at ref, value)
Carried(L, ref) ==
    UNION {{<<p, v>> : v \in TagValuesOf(DictGet(L.files, p), ref)} :
              p \in DictKeys(L.files)}

\* C29: for every Entity e of the layout and every path p, p is a key of
\* e.files with the value v exactly if Layout.files holds p and the File at p
\* carries the Tag (e, v).
C29_EntityFileRelationConsistent ==
    \A ref \in DictValues(layout.entities) :
        Recorded(layout, ref) = Carried(layout, ref)

(***************************************************************************)
(* index() and the iteration order of the set of domain names              *)
(***************************************************************************)
\* the two layouts hold the same paths, and every File has the same tags:
\* under each name the same owning Entity and the same value
SameTags(L1, L2) ==
    /\ DictKeys(L1.files) = DictKeys(L2.files)
    /\ \A p \in DictKeys(L1.files) \cap DictKeys(L2.files) :
           DictGet(L1.files, p).tags = DictGet(L2.files, p).tags

\* C30: index() gives every file the same tags (the same owning entity and
\* the same value under each name) whatever order the set of domain names
\* collected for the file is iterated in.
C30_IndexOrderIndependent ==
    [][(op' = "index" /\ err' = "None")
           => \A o \in Orders : SameTags(index(layout, o).L, layout')]_vars

====
